---- MODULE Spec2Model ----
(***************************************************************************)
(* langfuse-go: the prompt cache (internal/pkg/cache) and prompt           *)
(* resolution (Langfuse.GetPrompt) as state machines.                      *)
(*                                                                         *)
(* The specifications share the variables:                                 *)
(*   SpecKey    buildPromptCacheKey applied to bounded requests            *)
(*   SpecCache  the generic TTL cache driven through its public methods    *)
(*   Spec       GetPrompt with the remote fetch as an environment step,    *)
(*              against the client's private prompt cache                  *)
(*   SpecCtx    GetPrompt under caller deadlines, cancellation and         *)
(*              FetchTimeout                                               *)
(*   SpecLock   two goroutines inside the cache's methods, step by step    *)
(*              around Cache.mu                                            *)
(*   SpecRace   two goroutines calling GetPrompt for one key at once       *)
(*   SpecIngest Trace, Generation, Span, Event and Score handing their     *)
(*              events to the observer                                     *)
(*   SpecAlias  buildPromptCacheKey applied to names and labels that hold  *)
(*              the key's separators                                       *)
(*   SpecFetch  two goroutines inside GetPrompt and the cache's methods,   *)
(*              the fetch running outside Cache.mu; SpecFetchFair adds     *)
(*              the scheduler's and the mutex's fairness                   *)
(*                                                                         *)
(* Time is an integer clock; one tick stands for five minutes, so that     *)
(* defaultPromptCacheTTL (5 * time.Minute) is 1.  A Go pointer is a        *)
(* sequence of length 0 (nil) or 1.                                        *)
(***************************************************************************)
EXTENDS Integers, Sequences, FiniteSets, TLC

VARIABLES
    now,             \* time.Now()
    entries,         \* Cache.entries: key -> Entry
    ttl,             \* Cache.ttl
    promptCacheTTL,  \* Langfuse.promptCacheTTL
    pc,              \* per caller: position inside GetPrompt
    req,             \* per caller: (name, opts) of the call in progress
    key,             \* per caller: cacheKey local of GetPrompt
    lookup,          \* per caller: what promptCache.Get returned
    fetched,         \* per caller: the response, the parsed prompt and the TTL about to be cached
    result,          \* per caller: what GetPrompt returned
    fetches,         \* per caller: DoGetRequest calls issued by this call
    held,            \* per caller: history, the cache's answer for the key at call time
    ctx,             \* per caller: the context passed to GetPrompt
    fetchCtx,        \* per caller: deadline of the context fetchPrompt hands to DoGetRequest
    path,            \* per caller: the URL path and query fetchPrompt requests
    queue,           \* ingestion: the events handed to the observer and not yet drained
    uuids,           \* ingestion: the number of uuid.New() calls so far
    out,             \* ingestion: history, the last call, its argument and what it returned
    mu,              \* SpecLock: Cache.mu, its writer and its readers
    thr,             \* SpecLock: per goroutine, the cache call it is inside
    written,         \* SpecCache: the last mutating cache call
    ret              \* SpecCache: the last read call and what it returned

vars == <<now, entries, ttl, promptCacheTTL, pc, req, key, lookup, fetched,
          result, fetches, held, ctx, fetchCtx, path, queue, uuids, out,
          mu, thr, written, ret>>

----------------------------------------------------------------------------
(* Bounds *)

MaxTime == 2
MaxTTL == 1
MaxUUIDs == 3

(* Program constant: defaultPromptCacheTTL = 5 * time.Minute = one tick *)
defaultPromptCacheTTL == 1

----------------------------------------------------------------------------
(* Go values *)

Nil == <<>>
Some(x) == <<x>>
Deref(p) == p[1]

\* time.Duration is a signed integer: zero and negative TTLs are accepted;
\* the TTLs tried are a negative one, zero and the longest
TTLs == {0 - 1, 0, MaxTTL}

\* context.Background(): no deadline, never cancelled
Background == [deadline |-> Nil, cancelled |-> FALSE]

\* ctx.Err() at instant t of a context with this deadline and cancel signal
CtxErr(deadline, cancelled, t) ==
    IF cancelled THEN Some("context canceled")
    ELSE IF deadline # Nil /\ t >= Deref(deadline)
    THEN Some("context deadline exceeded")
    ELSE Nil

\* a WithTimeout that replaces the deadline of its parent
WithTimeoutReplacing(parentDeadline, d, t) == Some(t + d)

\* context.WithTimeout(parent, d) called at instant t: the deadline of the
\* derived context, which never lies after the parent's
WithTimeout(parentDeadline, d, t) ==
    IF parentDeadline # Nil /\ Deref(parentDeadline) < t + d
    THEN parentDeadline
    ELSE Some(t + d)

\* model.Prompt: a struct of two pointers, TextPrompt and ChatPrompt
TextPromptOf(body) == [TextPrompt |-> Some(body), ChatPrompt |-> Nil]
ChatPromptOf(msgs) == [TextPrompt |-> Nil, ChatPrompt |-> Some(msgs)]

\* GetPromptOptions
Options(V, L, F, C, T, R) ==
    [Version : V, Label : L, FallbackPrompt : F, CacheTTL : C,
     FetchTimeout : T, ForceRefresh : R]

NoOptions ==
    [Version |-> Nil, Label |-> Nil, FallbackPrompt |-> Nil, CacheTTL |-> Nil,
     FetchTimeout |-> Nil, ForceRefresh |-> FALSE]

Fallback == Some(TextPromptOf("fallback"))

----------------------------------------------------------------------------
(* strconv.Itoa *)

Digit(d) ==
    CASE d = 0 -> "0" [] d = 1 -> "1" [] d = 2 -> "2" [] d = 3 -> "3"
      [] d = 4 -> "4" [] d = 5 -> "5" [] d = 6 -> "6" [] d = 7 -> "7"
      [] d = 8 -> "8" [] d = 9 -> "9"

RECURSIVE Itoa(_)
Itoa(n) ==
    IF n < 0 THEN "-" \o Itoa(0 - n)
    ELSE IF n < 10 THEN Digit(n)
    ELSE Itoa(n \div 10) \o Digit(n % 10)

----------------------------------------------------------------------------
(* Langfuse.buildPromptCacheKey *)

\* a key builder that lets the label take precedence over the version
buildPromptCacheKeyLabelFirst(name, opts) ==
    IF opts.Label # Nil
    THEN "prompt:" \o name \o ":l:" \o Deref(opts.Label)
    ELSE IF opts.Version # Nil
    THEN "prompt:" \o name \o ":v" \o Itoa(Deref(opts.Version))
    ELSE "prompt:" \o name \o ":l:production"

\* a key builder that keeps force-refreshed results apart
buildPromptCacheKeyPerRefresh(name, opts) ==
    (IF opts.Version # Nil
     THEN "prompt:" \o name \o ":v" \o Itoa(Deref(opts.Version))
     ELSE IF opts.Label # Nil
     THEN "prompt:" \o name \o ":l:" \o Deref(opts.Label)
     ELSE "prompt:" \o name \o ":l:production")
    \o (IF opts.ForceRefresh THEN ":fresh" ELSE "")

buildPromptCacheKey(name, opts) ==
    IF opts.Version # Nil
    THEN "prompt:" \o name \o ":v" \o Itoa(Deref(opts.Version))
    ELSE IF opts.Label # Nil
    THEN "prompt:" \o name \o ":l:" \o Deref(opts.Label)
    ELSE "prompt:" \o name \o ":l:production"

----------------------------------------------------------------------------
(* package cache: Entry and the methods of Cache, as functions of the map,  *)
(* the clock and the arguments                                              *)

\* an expiry test that already fires at the expiry instant
IsExpiredAtInstant(e, t) == t >= e.ExpiresAt

\* Entry.IsExpired: time.Now().After(e.ExpiresAt), strictly later
IsExpired(e, t) == t > e.ExpiresAt

\* the Entry literal of Set and SetWithTTL: ExpiresAt = time.Now().Add(d)
NewEntry(v, d, t) == [Value |-> v, ExpiresAt |-> t + d, IsFallback |-> FALSE]

\* c.entries[key] = e
Store(es, k, e) == [x \in DOMAIN es \cup {k} |-> IF x = k THEN e ELSE es[x]]

\* make(map[string]*Entry[T])
EmptyMap == <<>>

\* a Get that treats an expired entry as absent
CacheGetEvicting(es, k, t, zero) ==
    IF k \notin DOMAIN es \/ t > es[k].ExpiresAt
    THEN [value |-> zero, found |-> FALSE, expired |-> FALSE]
    ELSE [value |-> es[k].Value, found |-> TRUE, expired |-> FALSE]

\* Cache.Get; zero is the zero value of T
CacheGet(es, k, t, zero) ==
    IF k \notin DOMAIN es
    THEN [value |-> zero, found |-> FALSE, expired |-> FALSE]
    ELSE [value |-> es[k].Value, found |-> TRUE, expired |-> IsExpired(es[k], t)]

\* a Set that sweeps the expired entries out while it holds the lock
CacheSetSweeping(es, k, v, d, t) ==
    LET kept == {x \in DOMAIN es : ~(t > es[x].ExpiresAt)}
    IN [x \in kept \cup {k} |->
           IF x = k THEN [Value |-> v, ExpiresAt |-> t + d, IsFallback |-> FALSE]
           ELSE es[x]]

\* a Set that forgets to add the TTL to the expiry instant
CacheSetNoTTL(es, k, v, d, t) == Store(es, k, NewEntry(v, 0, t))

\* Cache.Set; d is c.ttl at the call
CacheSet(es, k, v, d, t) == Store(es, k, NewEntry(v, d, t))

\* a SetWithTTL that stores nothing
CacheSetWithTTLNoStore(es, k, v, d, t) == es

\* a SetWithTTL that writes the value but keeps the expiry of an entry it finds
CacheSetWithTTLKeepExpiry(es, k, v, d, t) ==
    IF k \in DOMAIN es
    THEN Store(es, k, [NewEntry(v, d, t) EXCEPT !.ExpiresAt = es[k].ExpiresAt])
    ELSE Store(es, k, NewEntry(v, d, t))

\* a SetWithTTL that leaves an entry alone while it has not expired
CacheSetWithTTLFirstWins(es, k, v, d, t) ==
    IF k \in DOMAIN es /\ ~(t > es[k].ExpiresAt) THEN es
    ELSE Store(es, k, NewEntry(v, d, t))

\* Cache.SetWithTTL
CacheSetWithTTL(es, k, v, d, t) == Store(es, k, NewEntry(v, d, t))

\* a Delete that drops the whole map
CacheDeleteAll(es, k) == <<>>

\* Cache.Delete
CacheDelete(es, k) == [x \in DOMAIN es \ {k} |-> es[x]]

\* a Clear that leaves the map as it is
CacheClearNothing(es) == es

\* Cache.Clear: c.entries = make(map[string]*Entry[T])
CacheClear(es) == EmptyMap

\* a Cleanup that also removes the entries expiring at this very instant
CacheCleanupEager(es, t) == [x \in {k \in DOMAIN es : ~(t >= es[k].ExpiresAt)} |-> es[x]]

\* a Cleanup that spares the entries that expired within the last tick
CacheCleanupLate(es, t) == [x \in {k \in DOMAIN es : ~(t > es[k].ExpiresAt + 1)} |-> es[x]]

\* Cache.Cleanup: delete every entry with now.After(entry.ExpiresAt)
CacheCleanup(es, t) == [x \in {k \in DOMAIN es : ~(t > es[k].ExpiresAt)} |-> es[x]]

\* Cache.Size
CacheSize(es) == Cardinality(DOMAIN es)

----------------------------------------------------------------------------
(* Callers of GetPrompt and their idle state *)

Procs == {1, 2}

NoReq == [name |-> "", opts |-> NoOptions]
NoLookup == [value |-> Nil, found |-> FALSE, expired |-> FALSE]
NoFetched == [prompt |-> Nil, err |-> Nil, cacheTTL |-> 0, ctxErr |-> Nil, resp |-> Nil]
NoResult == [prompt |-> Nil, err |-> Nil]

IdleCallers ==
    /\ pc = [p \in Procs |-> "idle"]
    /\ req = [p \in Procs |-> NoReq]
    /\ key = [p \in Procs |-> ""]
    /\ lookup = [p \in Procs |-> NoLookup]
    /\ fetched = [p \in Procs |-> NoFetched]
    /\ result = [p \in Procs |-> NoResult]
    /\ fetches = [p \in Procs |-> 0]
    /\ held = [p \in Procs |-> NoLookup]
    /\ ctx = [p \in Procs |-> Background]
    /\ fetchCtx = [p \in Procs |-> Nil]
    /\ path = [p \in Procs |-> ""]

callerVars == <<pc, req, key, lookup, fetched, result, fetches, held, ctx, fetchCtx, path>>

\* goroutines outside every cache call, and Cache.mu held by nobody
NoCall == [pc |-> "idle", op |-> "", key |-> "", value |-> "", ttl |-> 0,
           entry |-> Nil, got |-> Nil]
Unlocked == [writer |-> 0, readers |-> {}]

IdleLock ==
    /\ mu = Unlocked
    /\ thr = [t \in Procs |-> NoCall]

lockVars == <<mu, thr>>

\* no ingestion call made yet, nothing handed to the observer
NoOut == [op |-> "", given |-> Nil, obj |-> Nil, ret |-> Nil, err |-> Nil]

IdleIngest ==
    /\ queue = <<>>
    /\ uuids = 0
    /\ out = NoOut

ingestVars == <<queue, uuids, out>>

\* time passes
Tick ==
    /\ now < MaxTime
    /\ now' = now + 1
    /\ UNCHANGED <<ingestVars, lockVars, entries, ttl, promptCacheTTL, callerVars, written, ret>>

----------------------------------------------------------------------------
(* SpecCache: a Cache[string] driven through its methods                    *)

CacheKeys == {"key1", "key2"}
CacheValues == {"value1", "value2"}

NoWrite == [op |-> "", key |-> "", value |-> "", ttl |-> 0, at |-> 0, n |-> 0]
NoRet == [op |-> "", key |-> "", at |-> 0, value |-> "", found |-> FALSE,
          expired |-> FALSE, n |-> 0]

\* cache.New(ttl)
InitCache ==
    /\ now = 0
    /\ entries = EmptyMap
    /\ ttl \in TTLs
    /\ promptCacheTTL = defaultPromptCacheTTL
    /\ IdleCallers
    /\ IdleIngest
    /\ IdleLock
    /\ written = NoWrite
    /\ ret = NoRet

Set(k, v) ==
    /\ entries' = CacheSet(entries, k, v, ttl, now)
    /\ written' = [op |-> "Set", key |-> k, value |-> v, ttl |-> ttl, at |-> now,
                   n |-> 0]
    /\ ret' = NoRet
    /\ UNCHANGED <<ingestVars, lockVars, now, ttl, promptCacheTTL, callerVars>>

\* a SetWithTTL that also makes its TTL the default of the cache
SetWithTTLSticky(k, v, d) ==
    /\ entries' = CacheSetWithTTL(entries, k, v, d, now)
    /\ ttl' = d
    /\ written' = [op |-> "SetWithTTL", key |-> k, value |-> v, ttl |-> d,
                   at |-> now, n |-> 0]
    /\ ret' = NoRet
    /\ UNCHANGED <<ingestVars, lockVars, now, promptCacheTTL, callerVars>>

SetWithTTL(k, v, d) ==
    /\ entries' = CacheSetWithTTL(entries, k, v, d, now)
    /\ written' = [op |-> "SetWithTTL", key |-> k, value |-> v, ttl |-> d,
                   at |-> now, n |-> 0]
    /\ ret' = NoRet
    /\ UNCHANGED <<ingestVars, lockVars, now, ttl, promptCacheTTL, callerVars>>

Get(k) ==
    /\ LET g == CacheGet(entries, k, now, "")
       IN ret' = [op |-> "Get", key |-> k, at |-> now, value |-> g.value,
                  found |-> g.found, expired |-> g.expired, n |-> 0]
    /\ UNCHANGED <<ingestVars, lockVars, now, entries, ttl, promptCacheTTL, callerVars, written>>

Delete(k) ==
    /\ entries' = CacheDelete(entries, k)
    /\ written' = [NoWrite EXCEPT !.op = "Delete", !.key = k, !.at = now,
                                  !.n = CacheSize(entries) - CacheSize(entries')]
    /\ ret' = NoRet
    /\ UNCHANGED <<ingestVars, lockVars, now, ttl, promptCacheTTL, callerVars>>

Clear ==
    /\ entries' = CacheClear(entries)
    /\ written' = [NoWrite EXCEPT !.op = "Clear", !.at = now,
                                  !.n = CacheSize(entries)]
    /\ ret' = NoRet
    /\ UNCHANGED <<ingestVars, lockVars, now, ttl, promptCacheTTL, callerVars>>

Cleanup ==
    /\ entries' = CacheCleanup(entries, now)
    /\ written' = [NoWrite EXCEPT !.op = "Cleanup", !.at = now,
                                  !.n = CacheSize(entries) - CacheSize(entries')]
    /\ ret' = NoRet
    /\ UNCHANGED <<ingestVars, lockVars, now, ttl, promptCacheTTL, callerVars>>

Size ==
    /\ ret' = [NoRet EXCEPT !.op = "Size", !.at = now, !.n = CacheSize(entries)]
    /\ UNCHANGED <<ingestVars, lockVars, now, entries, ttl, promptCacheTTL, callerVars, written>>

\* a SetTTL that re-stamps the entries already in the map
SetTTLRewriting(d) ==
    /\ ttl' = d
    /\ entries' = [k \in DOMAIN entries |-> [entries[k] EXCEPT !.ExpiresAt = now + d]]
    /\ ret' = [NoRet EXCEPT !.op = "SetTTL", !.at = now, !.n = d]
    /\ UNCHANGED <<ingestVars, lockVars, now, promptCacheTTL, callerVars, written>>

SetTTL(d) ==
    /\ ttl' = d
    /\ ret' = [NoRet EXCEPT !.op = "SetTTL", !.at = now, !.n = d]
    /\ UNCHANGED <<ingestVars, lockVars, now, entries, promptCacheTTL, callerVars, written>>

GetTTL ==
    /\ ret' = [NoRet EXCEPT !.op = "GetTTL", !.at = now, !.n = ttl]
    /\ UNCHANGED <<ingestVars, lockVars, now, entries, ttl, promptCacheTTL, callerVars, written>>

NextCache ==
    \/ Tick
    \/ \E k \in CacheKeys, v \in CacheValues : Set(k, v)
    \/ \E k \in CacheKeys, v \in CacheValues, d \in TTLs : SetWithTTL(k, v, d)
    \/ \E k \in CacheKeys : Get(k)
    \/ \E k \in CacheKeys : Delete(k)
    \/ Clear
    \/ Cleanup
    \/ Size
    \/ \E d \in TTLs : SetTTL(d)
    \/ GetTTL

SpecCache == InitCache /\ [][NextCache]_vars

----------------------------------------------------------------------------
(* SpecKey: buildPromptCacheKey applied to the requests of two callers      *)

KeyNames == {"p", "q"}
KeyVersions == {Nil, Some(2), Some(12)}
KeyLabels == {Nil, Some("production"), Some("staging")}
KeyOptions ==
    Options(KeyVersions, KeyLabels, {Nil, Fallback}, {Nil, Some(MaxTTL)},
            {Nil, Some(MaxTTL)}, BOOLEAN)

InitKey ==
    /\ now = 0
    /\ entries = EmptyMap
    /\ ttl = defaultPromptCacheTTL
    /\ promptCacheTTL = defaultPromptCacheTTL
    /\ IdleCallers
    /\ IdleIngest
    /\ IdleLock
    /\ written = NoWrite
    /\ ret = NoRet

\* GetPrompt line 101: cacheKey := l.buildPromptCacheKey(name, opts)
BuildKey(p, name, opts) ==
    /\ pc[p] = "idle"
    /\ pc' = [pc EXCEPT ![p] = "keyed"]
    /\ req' = [req EXCEPT ![p] = [name |-> name, opts |-> opts]]
    /\ key' = [key EXCEPT ![p] = buildPromptCacheKey(name, opts)]
    /\ UNCHANGED <<ingestVars, lockVars, now, entries, ttl, promptCacheTTL, lookup, fetched, result,
                   fetches, held, ctx, fetchCtx, path, written, ret>>

NextKey == \E p \in Procs, name \in KeyNames, opts \in KeyOptions : BuildKey(p, name, opts)

SpecKey == InitKey /\ [][NextKey]_vars

----------------------------------------------------------------------------
(* The remote fetch: what Client.DoGetRequest can return, and the parser    *)

\* a JSON value of the "prompt" field: a string or an array of messages
JsonString(str) == [kind |-> "string", str |-> str, msgs |-> <<>>]
JsonArray(msgs) == [kind |-> "array", str |-> "", msgs |-> msgs]

\* a response body: valid JSON or not, its "type" and its "prompt"
Body(valid, type, prompt) == [valid |-> valid, type |-> type, prompt |-> prompt]

TextBody == Body(TRUE, "text", JsonString("As a {{criticlevel}} critic"))
ChatBody == Body(TRUE, "chat", JsonArray(<<[role |-> "system", content |-> "You are"]>>))
OtherBody == Body(TRUE, "embedding", JsonString(""))
MixedBody == Body(TRUE, "text", JsonArray(<<>>))
BadBody == Body(FALSE, "", JsonString(""))

Response(body, statusCode, err) == [body |-> body, statusCode |-> statusCode, err |-> err]

\* string(body): the bytes of a body, abbreviated to what tells bodies apart
BodyText(body) == IF body.valid THEN "{type:" \o body.type \o "}" ELSE "<html>"

\* url.PathEscape on one character: "/", "?", "%" and the space are escaped,
\* letters, digits, "-", "_", "." and ":" are kept
PathEscapeChar(c) ==
    CASE c = " " -> "%20"
      [] c = "/" -> "%2F"
      [] c = "?" -> "%3F"
      [] c = "%" -> "%25"
      [] OTHER -> c

RECURSIVE PathEscape(_)
PathEscape(str) ==
    IF str = "" THEN ""
    ELSE PathEscapeChar(SubSeq(str, 1, 1)) \o PathEscape(SubSeq(str, 2, Len(str)))

\* url.QueryEscape on one character, as url.Values.Encode applies it
QueryEscapeChar(c) ==
    CASE c = " " -> "+"
      [] c = "/" -> "%2F"
      [] c = "?" -> "%3F"
      [] c = "%" -> "%25"
      [] c = ":" -> "%3A"
      [] c = "&" -> "%26"
      [] c = "=" -> "%3D"
      [] OTHER -> c

RECURSIVE QueryEscape(_)
QueryEscape(str) ==
    IF str = "" THEN ""
    ELSE QueryEscapeChar(SubSeq(str, 1, 1)) \o QueryEscape(SubSeq(str, 2, Len(str)))

\* a request that sends every selector the options hold; url.Values.Encode
\* writes the parameters sorted by name
fetchPathBoth(name, opts) ==
    "/api/public/v2/prompts/" \o PathEscape(name)
        \o (IF opts.Label # Nil /\ opts.Version # Nil
            THEN "?label=" \o QueryEscape(Deref(opts.Label))
                     \o "&version=" \o Itoa(Deref(opts.Version))
            ELSE IF opts.Version # Nil THEN "?version=" \o Itoa(Deref(opts.Version))
            ELSE IF opts.Label # Nil THEN "?label=" \o QueryEscape(Deref(opts.Label))
            ELSE "")

\* fetchPrompt lines 155-168: the URL path and its query
fetchPath(name, opts) ==
    "/api/public/v2/prompts/" \o PathEscape(name)
        \o (IF opts.Version # Nil THEN "?version=" \o Itoa(Deref(opts.Version))
            ELSE IF opts.Label # Nil THEN "?label=" \o QueryEscape(Deref(opts.Label))
            ELSE "")

\* the error of http.Client.Do: a *url.Error, which names the method and URL
URLError(urlPath, cause) == "Get " \o urlPath \o ": " \o cause

\* Client.DoGetRequest(ctx, urlPath); cerr is ctx.Err() when it returns.
\* A context that is done makes Do fail, or cuts the body short: the read
\* loop stops on the read error and returns what it has with a nil error.
DoGetRequest(urlPath, cerr) ==
    IF cerr # Nil
    THEN {Response(BadBody, 0,
                   Some("failed to execute request: " \o URLError(urlPath, Deref(cerr)))),
          Response(BadBody, 200, Nil)}
    ELSE {Response(BadBody, 0,
                   Some("failed to execute request: "
                            \o URLError(urlPath, "connection refused"))),
          Response(TextBody, 200, Nil),
          Response(ChatBody, 200, Nil),
          Response(OtherBody, 200, Nil),
          Response(MixedBody, 200, Nil),
          Response(BadBody, 200, Nil),
          Response(TextBody, 404, Nil)}

Failure(err) == [prompt |-> Nil, err |-> Some(err)]
Success(prompt) == [prompt |-> Some(prompt), err |-> Nil]

\* a parser that makes an empty text prompt of a body it cannot read
parsePromptResponseLenient(body) ==
    IF ~body.valid THEN Success(TextPromptOf(""))
    ELSE CASE body.type = "text" /\ body.prompt.kind = "string" ->
                Success(TextPromptOf(body.prompt.str))
           [] body.type = "chat" /\ body.prompt.kind = "array" ->
                Success(ChatPromptOf(body.prompt.msgs))
           [] OTHER -> Failure("unknown prompt type")

\* a parser that reads a body of an unknown type as a text prompt
parsePromptResponseAsText(body) ==
    IF ~body.valid THEN Failure("failed to unmarshal prompt")
    ELSE CASE body.type = "chat" ->
                IF body.prompt.kind # "array"
                THEN Failure("failed to unmarshal chat prompt")
                ELSE Success(ChatPromptOf(body.prompt.msgs))
           [] OTHER ->
                IF body.prompt.kind # "string"
                THEN Failure("failed to unmarshal text prompt")
                ELSE Success(TextPromptOf(body.prompt.str))

\* a parser that goes by the shape of the prompt field, not by the type
parsePromptResponseByShape(body) ==
    IF ~body.valid THEN Failure("failed to unmarshal prompt")
    ELSE IF body.type \notin {"text", "chat"} THEN Failure("unknown prompt type")
    ELSE IF body.prompt.kind = "string" THEN Success(TextPromptOf(body.prompt.str))
    ELSE Success(ChatPromptOf(body.prompt.msgs))

\* parsePromptResponse
parsePromptResponse(body) ==
    IF ~body.valid THEN Failure("failed to unmarshal prompt")
    ELSE CASE body.type = "text" ->
                IF body.prompt.kind # "string"
                THEN Failure("failed to unmarshal text prompt")
                ELSE Success(TextPromptOf(body.prompt.str))
           [] body.type = "chat" ->
                IF body.prompt.kind # "array"
                THEN Failure("failed to unmarshal chat prompt")
                ELSE Success(ChatPromptOf(body.prompt.msgs))
           [] OTHER -> Failure("unknown prompt type")

\* a fetchPrompt that parses the body whatever the status code
FetchResultAnyStatus(r) ==
    IF r.err # Nil THEN Failure("failed to fetch prompt: " \o Deref(r.err))
    ELSE LET parsed == parsePromptResponse(r.body)
         IN  IF parsed.err # Nil
             THEN Failure("failed to parse prompt response: " \o Deref(parsed.err))
             ELSE parsed

\* a fetchPrompt for which only a status of 500 or more is a failure
FetchResultBelow500(r) ==
    IF r.err # Nil THEN Failure("failed to fetch prompt: " \o Deref(r.err))
    ELSE IF r.statusCode >= 500
    THEN Failure("failed to fetch prompt: HTTP " \o Itoa(r.statusCode) \o ": "
                     \o BodyText(r.body))
    ELSE LET parsed == parsePromptResponse(r.body)
         IN  IF parsed.err # Nil
             THEN Failure("failed to parse prompt response: " \o Deref(parsed.err))
             ELSE parsed

\* fetchPrompt lines 171-184: the request's result turned into (prompt, err)
FetchResult(r) ==
    IF r.err # Nil THEN Failure("failed to fetch prompt: " \o Deref(r.err))
    ELSE IF r.statusCode >= 400
    THEN Failure("failed to fetch prompt: HTTP " \o Itoa(r.statusCode) \o ": "
                     \o BodyText(r.body))
    ELSE LET parsed == parsePromptResponse(r.body)
         IN  IF parsed.err # Nil
             THEN Failure("failed to parse prompt response: " \o Deref(parsed.err))
             ELSE parsed

\* fetchPrompt lines 149-153: the deadline of the context DoGetRequest gets
FetchContext(parentDeadline, opts, t) ==
    IF opts.FetchTimeout # Nil
    THEN WithTimeout(parentDeadline, Deref(opts.FetchTimeout), t)
    ELSE parentDeadline

\* a TTL choice that ignores the option of the call
WriteTTLDefault(opts, default) == default

\* fetchPrompt lines 187-190: the TTL of the cache write
WriteTTL(opts, default) ==
    IF opts.CacheTTL # Nil THEN Deref(opts.CacheTTL) ELSE default

----------------------------------------------------------------------------
(* Langfuse.GetPrompt *)

\* a stale-hit handler that passes the fetch error on
OnStaleFetchErrorPropagate(stale, opts, err) == [prompt |-> Nil, err |-> err]

\* a stale-hit handler that prefers the caller's fallback to the stale value
OnStaleFetchErrorFallback(stale, opts, err) ==
    IF opts.FallbackPrompt # Nil
    THEN [prompt |-> opts.FallbackPrompt, err |-> Nil]
    ELSE [prompt |-> stale, err |-> Nil]

\* GetPrompt lines 112-115: the refresh of a stale entry failed
OnStaleFetchError(stale, opts, err) == [prompt |-> stale, err |-> Nil]

\* a miss handler that forgets the fallback
OnFetchErrorNoFallback(opts, err) == [prompt |-> Nil, err |-> err]

\* a miss handler that hands back the fallback together with the error
OnFetchErrorBoth(opts, err) == [prompt |-> opts.FallbackPrompt, err |-> err]

\* GetPrompt lines 122-128: the fetch after a miss or a forced refresh failed
OnFetchError(opts, err) ==
    IF opts.FallbackPrompt # Nil
    THEN [prompt |-> opts.FallbackPrompt, err |-> Nil]
    ELSE [prompt |-> Nil, err |-> err]

\* a lookup that reads the cache even when a refresh is forced
LookupAlways(opts, es, k, t) == CacheGet(es, k, t, Nil)

\* a lookup that, when a refresh is forced, still remembers the entry as stale
LookupForcedStale(opts, es, k, t) ==
    IF opts.ForceRefresh
    THEN [CacheGet(es, k, t, Nil) EXCEPT !.expired = TRUE]
    ELSE CacheGet(es, k, t, Nil)

\* GetPrompt lines 104-105: the cache is read unless ForceRefresh is set
Lookup(opts, es, k, t) ==
    IF opts.ForceRefresh THEN NoLookup ELSE CacheGet(es, k, t, Nil)

\* a lookup that ends the call on any entry found, expired or not
FreshHitAny(g) == g.found

\* GetPrompt lines 105-108: a lookup that ends the call
FreshHit(g) == g.found /\ ~g.expired

\* a GetPrompt that does not start while another call is fetching the same key
GetPromptCallSingleFlight(p, c, name, opts) ==
    /\ pc[p] = "idle"
    /\ \A q \in Procs \ {p} :
         ~(pc[q] = "fetching" /\ key[q] = buildPromptCacheKey(name, opts))
    /\ ctx' = [ctx EXCEPT ![p] = c]
    /\ LET k == buildPromptCacheKey(name, opts)
           g == Lookup(opts, entries, k, now)
       IN  /\ req' = [req EXCEPT ![p] = [name |-> name, opts |-> opts]]
           /\ key' = [key EXCEPT ![p] = k]
           /\ lookup' = [lookup EXCEPT ![p] = g]
           /\ held' = [held EXCEPT ![p] = CacheGet(entries, k, now, Nil)]
           /\ IF FreshHit(g)
              THEN /\ result' = [result EXCEPT ![p] = [prompt |-> g.value, err |-> Nil]]
                   /\ fetches' = [fetches EXCEPT ![p] = 0]
                   /\ fetchCtx' = [fetchCtx EXCEPT ![p] = Nil]
                   /\ path' = [path EXCEPT ![p] = ""]
                   /\ pc' = [pc EXCEPT ![p] = "done"]
              ELSE /\ result' = [result EXCEPT ![p] = NoResult]
                   /\ fetches' = [fetches EXCEPT ![p] = 1]
                   /\ fetchCtx' = [fetchCtx EXCEPT ![p] =
                                      FetchContext(c.deadline, opts, now)]
                   /\ path' = [path EXCEPT ![p] = fetchPath(name, opts)]
                   /\ pc' = [pc EXCEPT ![p] = "fetching"]
    /\ fetched' = [fetched EXCEPT ![p] = NoFetched]
    /\ UNCHANGED <<ingestVars, lockVars, now, entries, ttl, promptCacheTTL, written, ret>>

\* GetPrompt lines 95-121, up to the call of DoGetRequest
GetPromptCall(p, c, name, opts) ==
    /\ pc[p] = "idle"
    /\ ctx' = [ctx EXCEPT ![p] = c]
    /\ LET k == buildPromptCacheKey(name, opts)
           g == Lookup(opts, entries, k, now)
       IN  /\ req' = [req EXCEPT ![p] = [name |-> name, opts |-> opts]]
           /\ key' = [key EXCEPT ![p] = k]
           /\ lookup' = [lookup EXCEPT ![p] = g]
           /\ held' = [held EXCEPT ![p] = CacheGet(entries, k, now, Nil)]
           /\ IF FreshHit(g)
              THEN /\ result' = [result EXCEPT ![p] = [prompt |-> g.value, err |-> Nil]]
                   /\ fetches' = [fetches EXCEPT ![p] = 0]
                   /\ fetchCtx' = [fetchCtx EXCEPT ![p] = Nil]
                   /\ path' = [path EXCEPT ![p] = ""]
                   /\ pc' = [pc EXCEPT ![p] = "done"]
              ELSE /\ result' = [result EXCEPT ![p] = NoResult]
                   /\ fetches' = [fetches EXCEPT ![p] = 1]
                   /\ fetchCtx' = [fetchCtx EXCEPT ![p] =
                                      FetchContext(c.deadline, opts, now)]
                   /\ path' = [path EXCEPT ![p] = fetchPath(name, opts)]
                   /\ pc' = [pc EXCEPT ![p] = "fetching"]
    /\ fetched' = [fetched EXCEPT ![p] = NoFetched]
    /\ UNCHANGED <<ingestVars, lockVars, now, entries, ttl, promptCacheTTL, written, ret>>

\* the caller cancels the context of its call while fetchPrompt runs
Cancel(p) ==
    /\ pc[p] \in {"fetching", "caching"}
    /\ ~ctx[p].cancelled
    /\ ctx' = [ctx EXCEPT ![p].cancelled = TRUE]
    /\ UNCHANGED <<ingestVars, lockVars, now, entries, ttl, promptCacheTTL, pc, req, key, lookup, fetched,
                   result, fetches, held, fetchCtx, path, written, ret>>

\* a GetPrompt that, when it serves a stale value, stamps the entry afresh
FetchReturnRestamping(p) ==
    /\ pc[p] = "fetching"
    /\ LET opts == req[p].opts
           cerr == CtxErr(fetchCtx[p], ctx[p].cancelled, now)
       IN  \E r \in DoGetRequest(path[p], cerr) :
             LET f == FetchResult(r)
             IN  IF f.err # Nil
                 THEN /\ fetched' = [fetched EXCEPT ![p] =
                                       [NoFetched EXCEPT !.err = f.err, !.ctxErr = cerr,
                                                         !.resp = Some(r)]]
                      /\ result' = [result EXCEPT ![p] =
                                      IF lookup[p].found
                                      THEN OnStaleFetchError(lookup[p].value, opts, f.err)
                                      ELSE OnFetchError(opts, f.err)]
                      /\ entries' = IF lookup[p].found
                                    THEN CacheSetWithTTL(entries, key[p], lookup[p].value,
                                                         WriteTTL(opts, promptCacheTTL), now)
                                    ELSE entries
                      /\ pc' = [pc EXCEPT ![p] = "done"]
                 ELSE /\ fetched' = [fetched EXCEPT ![p] =
                                       [prompt |-> f.prompt, err |-> Nil,
                                        cacheTTL |-> WriteTTL(opts, promptCacheTTL),
                                        ctxErr |-> cerr, resp |-> Some(r)]]
                      /\ result' = result
                      /\ entries' = entries
                      /\ pc' = [pc EXCEPT ![p] = "caching"]
    /\ UNCHANGED <<ingestVars, lockVars, now, ttl, promptCacheTTL, req, key, lookup, fetches,
                   held, ctx, fetchCtx, path, written, ret>>

\* DoGetRequest returns; fetchPrompt lines 171-190, and on an error the
\* return of GetPrompt (lines 112-115 after a stale hit, 122-128 otherwise)
FetchReturn(p) ==
    /\ pc[p] = "fetching"
    /\ LET opts == req[p].opts
           cerr == CtxErr(fetchCtx[p], ctx[p].cancelled, now)
       IN  \E r \in DoGetRequest(path[p], cerr) :
             LET f == FetchResult(r)
             IN  IF f.err # Nil
                 THEN /\ fetched' = [fetched EXCEPT ![p] =
                                       [NoFetched EXCEPT !.err = f.err, !.ctxErr = cerr,
                                                         !.resp = Some(r)]]
                      /\ result' = [result EXCEPT ![p] =
                                      IF lookup[p].found
                                      THEN OnStaleFetchError(lookup[p].value, opts, f.err)
                                      ELSE OnFetchError(opts, f.err)]
                      /\ pc' = [pc EXCEPT ![p] = "done"]
                 ELSE /\ fetched' = [fetched EXCEPT ![p] =
                                       [prompt |-> f.prompt, err |-> Nil,
                                        cacheTTL |-> WriteTTL(opts, promptCacheTTL),
                                        ctxErr |-> cerr, resp |-> Some(r)]]
                      /\ result' = result
                      /\ pc' = [pc EXCEPT ![p] = "caching"]
    /\ UNCHANGED <<ingestVars, lockVars, now, entries, ttl, promptCacheTTL, req, key, lookup, fetches,
                   held, ctx, fetchCtx, path, written, ret>>

\* fetchPrompt lines 192-195 and the return of GetPrompt (116 or 130)
CachePrompt(p) ==
    /\ pc[p] = "caching"
    /\ entries' = CacheSetWithTTL(entries,
                                  buildPromptCacheKey(req[p].name, req[p].opts),
                                  fetched[p].prompt, fetched[p].cacheTTL, now)
    /\ result' = [result EXCEPT ![p] = [prompt |-> fetched[p].prompt, err |-> Nil]]
    /\ pc' = [pc EXCEPT ![p] = "done"]
    /\ UNCHANGED <<ingestVars, lockVars, now, ttl, promptCacheTTL, req, key, lookup, fetched, fetches,
                   held, ctx, fetchCtx, path, written, ret>>

\* the caller has taken the result; it may call again
Return(p) ==
    /\ pc[p] = "done"
    /\ pc' = [pc EXCEPT ![p] = "idle"]
    /\ req' = [req EXCEPT ![p] = NoReq]
    /\ key' = [key EXCEPT ![p] = ""]
    /\ lookup' = [lookup EXCEPT ![p] = NoLookup]
    /\ held' = [held EXCEPT ![p] = NoLookup]
    /\ fetched' = [fetched EXCEPT ![p] = NoFetched]
    /\ result' = [result EXCEPT ![p] = NoResult]
    /\ fetches' = [fetches EXCEPT ![p] = 0]
    /\ ctx' = [ctx EXCEPT ![p] = Background]
    /\ fetchCtx' = [fetchCtx EXCEPT ![p] = Nil]
    /\ path' = [path EXCEPT ![p] = ""]
    /\ UNCHANGED <<ingestVars, lockVars, now, entries, ttl, promptCacheTTL, written, ret>>

\* Langfuse.WithPromptCacheTTL
WithPromptCacheTTL(d) ==
    /\ promptCacheTTL' = d
    /\ ttl' = d
    /\ UNCHANGED <<ingestVars, lockVars, now, entries, callerVars, written, ret>>

\* Langfuse.ClearPromptCache
ClearPromptCache ==
    /\ entries' = CacheClear(entries)
    /\ UNCHANGED <<ingestVars, lockVars, now, ttl, promptCacheTTL, callerVars, written, ret>>

----------------------------------------------------------------------------
(* Spec: one caller at a time, with the clock, the TTL setter and the       *)
(* cache clear running between the steps of a call                          *)

Callers == {1}
Names == {"movie-critic"}
Versions == {Nil, Some(1)}
Labels == {Nil, Some("production")}
RequestOptions ==
    Options(Versions, Labels, {Nil, Fallback}, {Nil, Some(MaxTTL)}, {Nil}, BOOLEAN)

\* langfuse.New
Init ==
    /\ now = 0
    /\ entries = EmptyMap
    /\ ttl = defaultPromptCacheTTL
    /\ promptCacheTTL = defaultPromptCacheTTL
    /\ IdleCallers
    /\ IdleIngest
    /\ IdleLock
    /\ written = NoWrite
    /\ ret = NoRet

Next ==
    \/ Tick
    \/ \E p \in Callers, name \in Names, opts \in RequestOptions :
           GetPromptCall(p, Background, name, opts)
    \/ \E p \in Callers : FetchReturn(p)
    \/ \E p \in Callers : CachePrompt(p)
    \/ \E p \in Callers : Return(p)
    \/ \E d \in TTLs : WithPromptCacheTTL(d)
    \/ ClearPromptCache

Spec == Init /\ [][Next]_vars

----------------------------------------------------------------------------
(* SpecCtx: one caller whose context may carry a deadline and may be        *)
(* cancelled while the fetch runs, with and without FetchTimeout            *)

Deadlines == {Nil} \cup {Some(t) : t \in 1..MaxTime}
Contexts == [deadline : Deadlines, cancelled : BOOLEAN]
FetchTimeouts == {Nil, Some(0), Some(MaxTime)}
CtxOptions == Options({Nil}, {Nil}, {Nil, Fallback}, {Nil}, FetchTimeouts, BOOLEAN)

NextCtx ==
    \/ Tick
    \/ \E p \in Callers, c \in Contexts, name \in Names, opts \in CtxOptions :
           GetPromptCall(p, c, name, opts)
    \/ \E p \in Callers : Cancel(p)
    \/ \E p \in Callers : FetchReturn(p)
    \/ \E p \in Callers : CachePrompt(p)
    \/ \E p \in Callers : Return(p)

SpecCtx == Init /\ [][NextCtx]_vars

----------------------------------------------------------------------------
(* SpecAlias: buildPromptCacheKey applied to requests whose names and       *)
(* labels hold the key's own separators                                     *)

AliasNames == {"p", "p:l"}
AliasVersions == {Nil, Some(1)}
AliasLabels == {Nil, Some("production"), Some("v1")}
AliasOptions == Options(AliasVersions, AliasLabels, {Nil}, {Nil}, {Nil}, {FALSE})

NextAlias ==
    \E p \in Procs, name \in AliasNames, opts \in AliasOptions : BuildKey(p, name, opts)

SpecAlias == InitKey /\ [][NextAlias]_vars

----------------------------------------------------------------------------
(* SpecRace: two goroutines calling GetPrompt on one client at once, each   *)
(* for the production label of the same prompt                              *)

RaceOptions == Options({Nil}, Labels, {Nil}, {Nil}, {Nil}, BOOLEAN)

NextRace ==
    \/ Tick
    \/ \E p \in Procs, name \in Names, opts \in RaceOptions :
           GetPromptCall(p, Background, name, opts)
    \/ \E p \in Procs : FetchReturn(p)
    \/ \E p \in Procs : CachePrompt(p)
    \/ \E p \in Procs : Return(p)

SpecRace == Init /\ [][NextRace]_vars

----------------------------------------------------------------------------
(* SpecLock: two goroutines call Get, Set, SetWithTTL, Delete, Clear and    *)
(* Cleanup on one cache; each call takes c.mu, runs its body and releases   *)
(* c.mu on return, and the goroutines interleave between these steps        *)

LockKeys == {"key1"}
StoreOps == {"Set", "SetWithTTL"}
WriteOps == StoreOps \cup {"Delete", "Clear", "Cleanup"}

\* an RLock that does not wait for the writer
CanRLockAlways(m) == TRUE

\* sync.RWMutex: RLock waits while a writer holds the lock
CanRLock(m) == m.writer = 0

\* sync.RWMutex: Lock waits while a writer or any reader holds the lock
CanLock(m) == m.writer = 0 /\ m.readers = {}

InitLock ==
    /\ now = 0
    /\ entries = EmptyMap
    /\ ttl = defaultPromptCacheTTL
    /\ promptCacheTTL = defaultPromptCacheTTL
    /\ IdleCallers
    /\ IdleIngest
    /\ IdleLock
    /\ written = NoWrite
    /\ ret = NoRet

\* Get line 38: c.mu.RLock()
GetRLock(t, k) ==
    /\ thr[t].pc = "idle"
    /\ CanRLock(mu)
    /\ mu' = [mu EXCEPT !.readers = @ \cup {t}]
    /\ thr' = [thr EXCEPT ![t] = [NoCall EXCEPT !.pc = "locked", !.op = "Get", !.key = k]]
    /\ UNCHANGED <<ingestVars, now, entries, ttl, promptCacheTTL, callerVars, written, ret>>

\* Get line 41: entry, ok := c.entries[key]
GetLoad(t) ==
    /\ thr[t].pc = "locked"
    /\ thr[t].op = "Get"
    /\ thr' = [thr EXCEPT ![t].pc = "loaded",
                          ![t].entry = IF thr[t].key \in DOMAIN entries
                                       THEN Some(entries[thr[t].key])
                                       ELSE Nil]
    /\ UNCHANGED <<ingestVars, now, entries, ttl, promptCacheTTL, callerVars, mu, written, ret>>

\* Get lines 42-47: the return values are read through the loaded pointer
GetReturn(t) ==
    /\ thr[t].pc = "loaded"
    /\ LET e == thr[t].entry
           g == IF e = Nil
                THEN [value |-> "", found |-> FALSE, expired |-> FALSE]
                ELSE CacheGet(thr[t].key :> Deref(e), thr[t].key, now, "")
       IN  thr' = [thr EXCEPT ![t].pc = "unlocking",
                              ![t].got = Some([value |-> g.value, found |-> g.found,
                                               expired |-> g.expired, at |-> now])]
    /\ UNCHANGED <<ingestVars, now, entries, ttl, promptCacheTTL, callerVars, mu, written, ret>>

\* Get line 39: the deferred c.mu.RUnlock()
RUnlock(t) ==
    /\ thr[t].pc = "unlocking"
    /\ thr[t].op = "Get"
    /\ mu' = [mu EXCEPT !.readers = @ \ {t}]
    /\ thr' = [thr EXCEPT ![t] = NoCall]
    /\ UNCHANGED <<ingestVars, now, entries, ttl, promptCacheTTL, callerVars, written, ret>>

\* c.mu.Lock() of Set, SetWithTTL, Delete, Clear and Cleanup
Lock(t, op, k, v, d) ==
    /\ thr[t].pc = "idle"
    /\ CanLock(mu)
    /\ mu' = [mu EXCEPT !.writer = t]
    /\ thr' = [thr EXCEPT ![t] = [NoCall EXCEPT !.pc = "locked", !.op = op, !.key = k,
                                                !.value = v, !.ttl = d]]
    /\ UNCHANGED <<ingestVars, now, entries, ttl, promptCacheTTL, callerVars, written, ret>>

\* the body of the writing call, between Lock and Unlock
WriteBody(t) ==
    /\ thr[t].pc = "locked"
    /\ thr[t].op \in WriteOps
    /\ LET c == thr[t]
       IN  /\ entries' =
                  CASE c.op = "Set" -> CacheSet(entries, c.key, c.value, ttl, now)
                    [] c.op = "SetWithTTL" ->
                           CacheSetWithTTL(entries, c.key, c.value, c.ttl, now)
                    [] c.op = "Delete" -> CacheDelete(entries, c.key)
                    [] c.op = "Clear" -> CacheClear(entries)
                    [] c.op = "Cleanup" -> CacheCleanup(entries, now)
           /\ written' =
                  IF c.op \in StoreOps
                  THEN [op |-> c.op, key |-> c.key, value |-> c.value,
                        ttl |-> IF c.op = "Set" THEN ttl ELSE c.ttl, at |-> now, n |-> 0]
                  ELSE written
    /\ thr' = [thr EXCEPT ![t].pc = "unlocking"]
    /\ UNCHANGED <<ingestVars, now, ttl, promptCacheTTL, callerVars, mu, ret>>

\* the deferred c.mu.Unlock()
Unlock(t) ==
    /\ thr[t].pc = "unlocking"
    /\ thr[t].op \in WriteOps
    /\ mu' = [mu EXCEPT !.writer = 0]
    /\ thr' = [thr EXCEPT ![t] = NoCall]
    /\ UNCHANGED <<ingestVars, now, entries, ttl, promptCacheTTL, callerVars, written, ret>>

NextLock ==
    \/ Tick
    \/ \E t \in Procs, k \in LockKeys : GetRLock(t, k)
    \/ \E t \in Procs : GetLoad(t)
    \/ \E t \in Procs : GetReturn(t)
    \/ \E t \in Procs : RUnlock(t)
    \/ \E t \in Procs, k \in LockKeys, v \in CacheValues : Lock(t, "Set", k, v, 0)
    \/ \E t \in Procs, k \in LockKeys, v \in CacheValues, d \in TTLs :
           Lock(t, "SetWithTTL", k, v, d)
    \/ \E t \in Procs, k \in LockKeys : Lock(t, "Delete", k, "", 0)
    \/ \E t \in Procs : Lock(t, "Clear", "", "", 0)
    \/ \E t \in Procs : Lock(t, "Cleanup", "", "", 0)
    \/ \E t \in Procs : WriteBody(t)
    \/ \E t \in Procs : Unlock(t)

SpecLock == InitLock /\ [][NextLock]_vars

----------------------------------------------------------------------------
(* SpecIngest: the ingestion calls Trace, Generation, Span, Event and       *)
(* Score, each handing its events to the observer                           *)

\* uuid.New().String(): the n-th identifier generated.  No two are equal, and
\* none equals an identifier a caller supplies.
UUID(n) == "uuid-" \o Itoa(n)

\* a buildID that generates an identifier whatever it is given
buildIDAlways(id, fresh) == fresh

\* buildID(id *string); fresh is what uuid.New().String() returns if called
buildID(id, fresh) ==
    IF id = Nil THEN fresh
    ELSE IF Deref(id) = "" THEN fresh
    ELSE Deref(id)

\* the number of uuid.New() calls buildID(id) makes
Generated(id) == IF buildID(id, "") = "" THEN 1 ELSE 0

IngestionEvent(type, id, body) == [Type |-> type, ID |-> id, Body |-> body]

\* Observer.Dispatch: the event joins the ones waiting to be sent
Dispatch(q, ev) == Append(q, ev)

\* model.Trace, the observations (model.Generation, model.Span, model.Event)
\* and model.Score, cut down to the fields the calls read or write
TraceOf(id, name) == [ID |-> id, Name |-> name]
ObservationOf(id, traceID, name) ==
    [ID |-> id, TraceID |-> traceID, ParentObservationID |-> "", Name |-> name]
ScoreOf(id, traceID, sessionID) ==
    [ID |-> id, TraceID |-> traceID, SessionID |-> sessionID, Name |-> "test-score"]

\* what a call leaves behind: the observer's queue, the count of generated
\* identifiers and the object the caller's pointer refers to
Ingested(q, n, obj) == [queue |-> q, uuids |-> n, obj |-> obj]

\* Langfuse.Trace on queue q with n identifiers generated so far
TraceOn(q, n, t) ==
    LET n1 == n + Generated(Some(t.ID))
        t1 == [t EXCEPT !.ID = buildID(Some(t.ID), UUID(n1))]
    IN  Ingested(Dispatch(q, IngestionEvent("trace-create", buildID(Nil, UUID(n1 + 1)), t1)),
                 n1 + 1, t1)

\* a createTrace that makes up the trace's ID and tells the observer nothing
createTraceSilent(q, n, traceName) == Ingested(q, n + 1, TraceOf(UUID(n + 1), traceName))

\* Langfuse.createTrace: a trace named after the observation
createTrace(q, n, traceName) == TraceOn(q, n, TraceOf("", traceName))

\* the common body of Generation, Span and Event: a trace is created for an
\* observation that names none, then the observation gets its ID and parent
ObservationOn(q, n, type, o, parentID) ==
    LET made == IF o.TraceID = "" THEN createTrace(q, n, o.Name)
                ELSE Ingested(q, n, TraceOf(o.TraceID, ""))
        n1 == made.uuids + Generated(Some(o.ID))
        o1 == [o EXCEPT !.TraceID = made.obj.ID,
                        !.ID = buildID(Some(o.ID), UUID(n1)),
                        !.ParentObservationID =
                            IF parentID # Nil THEN Deref(parentID) ELSE @]
    IN  Ingested(Dispatch(made.queue, IngestionEvent(type, buildID(Nil, UUID(n1 + 1)), o1)),
                 n1 + 1, o1)

Returned(op, given, obj) ==
    [op |-> op, given |-> Some(given), obj |-> Some(obj), ret |-> Some(obj), err |-> Nil]
Refused(op, given, err) ==
    [op |-> op, given |-> Some(given), obj |-> Some(given), ret |-> Nil, err |-> Some(err)]

restVars == <<now, entries, ttl, promptCacheTTL, callerVars, lockVars, written, ret>>

\* the call took effect: i is what it left behind
Ingest(op, given, i) ==
    /\ i.uuids <= MaxUUIDs
    /\ queue' = i.queue
    /\ uuids' = i.uuids
    /\ out' = Returned(op, given, i.obj)
    /\ UNCHANGED restVars

\* Langfuse.Trace
Trace(t) == Ingest("Trace", t, TraceOn(queue, uuids, t))

\* Langfuse.Generation
Generation(g, parentID) ==
    Ingest("Generation", g, ObservationOn(queue, uuids, "generation-create", g, parentID))

\* Langfuse.Span
Span(sp, parentID) ==
    Ingest("Span", sp, ObservationOn(queue, uuids, "span-create", sp, parentID))

\* Langfuse.Event
Event(e, parentID) ==
    Ingest("Event", e, ObservationOn(queue, uuids, "event-create", e, parentID))

\* a Score that accepts a score naming neither a trace nor a session
ScoreUnchecked(sc) ==
    LET n1 == uuids + Generated(Some(sc.ID))
        s1 == [sc EXCEPT !.ID = buildID(Some(sc.ID), UUID(n1))]
    IN  Ingest("Score", sc,
               Ingested(Dispatch(queue, IngestionEvent("score-create",
                                                       buildID(Nil, UUID(n1 + 1)), s1)),
                        n1 + 1, s1))

\* Langfuse.Score
Score(sc) ==
    IF sc.TraceID = "" /\ sc.SessionID = ""
    THEN /\ out' = Refused("Score", sc, "either trace ID or session ID is required")
         /\ UNCHANGED <<queue, uuids, restVars>>
    ELSE LET n1 == uuids + Generated(Some(sc.ID))
             s1 == [sc EXCEPT !.ID = buildID(Some(sc.ID), UUID(n1))]
         IN  Ingest("Score", sc,
                    Ingested(Dispatch(queue, IngestionEvent("score-create",
                                                            buildID(Nil, UUID(n1 + 1)), s1)),
                             n1 + 1, s1))

\* Langfuse.Flush: the observer drains what it holds
Flush ==
    /\ queue' = <<>>
    /\ UNCHANGED <<uuids, out, restVars>>

IDs == {"", "existing-id"}
TraceIDs == {"", "test-trace-id"}
SessionIDs == {"", "test-session-id"}
ParentIDs == {Nil, Some("parent-id")}
Traces == {TraceOf(id, "trace") : id \in IDs}
Observations == {ObservationOf(id, traceID, "step") : id \in IDs, traceID \in TraceIDs}
Scores == {ScoreOf(id, traceID, sessionID) :
               id \in IDs, traceID \in TraceIDs, sessionID \in SessionIDs}

NextIngest ==
    \/ \E t \in Traces : Trace(t)
    \/ \E g \in Observations, parentID \in ParentIDs : Generation(g, parentID)
    \/ \E sp \in Observations, parentID \in ParentIDs : Span(sp, parentID)
    \/ \E e \in Observations, parentID \in ParentIDs : Event(e, parentID)
    \/ \E sc \in Scores : Score(sc)
    \/ Flush

SpecIngest == Init /\ [][NextIngest]_vars

----------------------------------------------------------------------------
(* SpecFetch: two goroutines on one client, each inside GetPrompt, Get,     *)
(* Set or Clear, with GetPrompt taken step by step around Cache.mu and the  *)
(* remote fetch a step that may never come.  SpecFetchFair adds what the    *)
(* Go scheduler and sync.RWMutex guarantee: a goroutine inside a cache      *)
(* method runs on to its return, and a goroutine waiting in Lock gets the   *)
(* lock once its holders release it.  Nothing makes a fetch return.         *)

FetchOutcomes == BOOLEAN

\* GetPrompt line 105: promptCache.Get takes the read lock (Get line 38)
PromptRLock(t, k) ==
    /\ thr[t].pc = "idle"
    /\ CanRLock(mu)
    /\ mu' = [mu EXCEPT !.readers = @ \cup {t}]
    /\ thr' = [thr EXCEPT ![t] = [NoCall EXCEPT !.pc = "locked", !.op = "GetPrompt",
                                                !.key = k]]
    /\ UNCHANGED <<ingestVars, now, entries, ttl, promptCacheTTL, callerVars, written, ret>>

\* GetPrompt lines 104 and 121 with ForceRefresh: no lookup, straight to fetchPrompt
PromptForce(t, k) ==
    /\ thr[t].pc = "idle"
    /\ thr' = [thr EXCEPT ![t] = [NoCall EXCEPT !.pc = "fetching", !.op = "GetPrompt",
                                                !.key = k]]
    /\ UNCHANGED <<ingestVars, now, entries, ttl, promptCacheTTL, callerVars, mu, written, ret>>

\* Get lines 41-47, run by GetPrompt under the read lock
PromptLoad(t) ==
    /\ thr[t].pc = "locked"
    /\ thr[t].op = "GetPrompt"
    /\ LET g == CacheGet(entries, thr[t].key, now, "")
       IN  thr' = [thr EXCEPT ![t].pc = "unlocking",
                              ![t].got = Some([value |-> g.value, found |-> g.found,
                                               expired |-> g.expired, at |-> now])]
    /\ UNCHANGED <<ingestVars, now, entries, ttl, promptCacheTTL, callerVars, mu, written, ret>>

\* a GetPrompt that goes on to fetchPrompt with the read lock still held
PromptRUnlockKeeping(t) ==
    /\ thr[t].pc = "unlocking"
    /\ thr[t].op = "GetPrompt"
    /\ IF FreshHit(Deref(thr[t].got))
       THEN /\ mu' = [mu EXCEPT !.readers = @ \ {t}]
            /\ thr' = [thr EXCEPT ![t] = NoCall]
       ELSE /\ mu' = mu
            /\ thr' = [thr EXCEPT ![t].pc = "fetching"]
    /\ UNCHANGED <<ingestVars, now, entries, ttl, promptCacheTTL, callerVars, written, ret>>

\* Get line 39, the deferred RUnlock, then GetPrompt lines 105-121: a fresh
\* hit returns, anything else goes on to fetchPrompt
PromptRUnlock(t) ==
    /\ thr[t].pc = "unlocking"
    /\ thr[t].op = "GetPrompt"
    /\ mu' = [mu EXCEPT !.readers = @ \ {t}]
    /\ thr' = [thr EXCEPT ![t] = IF FreshHit(Deref(thr[t].got))
                                 THEN NoCall
                                 ELSE [thr[t] EXCEPT !.pc = "fetching"]]
    /\ UNCHANGED <<ingestVars, now, entries, ttl, promptCacheTTL, callerVars, written, ret>>

\* fetchPrompt lines 171-190: DoGetRequest returns; a failed fetch or parse
\* ends the call (lines 172-184), a parsed prompt goes on to SetWithTTL
PromptFetched(t, v, ok) ==
    /\ thr[t].pc = "fetching"
    /\ thr' = [thr EXCEPT ![t] = IF ok
                                 THEN [thr[t] EXCEPT !.pc = "storing", !.value = v,
                                                     !.ttl = promptCacheTTL]
                                 ELSE NoCall]
    /\ UNCHANGED <<ingestVars, now, entries, ttl, promptCacheTTL, callerVars, mu, written, ret>>

\* fetchPrompt line 193: SetWithTTL takes the write lock (SetWithTTL line 64)
PromptLock(t) ==
    /\ thr[t].pc = "storing"
    /\ CanLock(mu)
    /\ mu' = [mu EXCEPT !.writer = t]
    /\ thr' = [thr EXCEPT ![t].pc = "locked", ![t].op = "SetWithTTL"]
    /\ UNCHANGED <<ingestVars, now, entries, ttl, promptCacheTTL, callerVars, written, ret>>

NextFetch ==
    \/ Tick
    \/ \E t \in Procs, k \in LockKeys : PromptRLock(t, k)
    \/ \E t \in Procs, k \in LockKeys : PromptForce(t, k)
    \/ \E t \in Procs : PromptLoad(t)
    \/ \E t \in Procs : PromptRUnlock(t)
    \/ \E t \in Procs, v \in CacheValues, ok \in FetchOutcomes : PromptFetched(t, v, ok)
    \/ \E t \in Procs : PromptLock(t)
    \/ \E t \in Procs, k \in LockKeys : GetRLock(t, k)
    \/ \E t \in Procs : GetLoad(t)
    \/ \E t \in Procs : GetReturn(t)
    \/ \E t \in Procs : RUnlock(t)
    \/ \E t \in Procs, k \in LockKeys, v \in CacheValues : Lock(t, "Set", k, v, 0)
    \/ \E t \in Procs : Lock(t, "Clear", "", "", 0)
    \/ \E t \in Procs : WriteBody(t)
    \/ \E t \in Procs : Unlock(t)

SpecFetch == InitLock /\ [][NextFetch]_vars

\* the steps a goroutine takes while it holds Cache.mu
InsideLock(t) ==
    \/ PromptLoad(t)
    \/ PromptRUnlock(t)
    \/ GetLoad(t)
    \/ GetReturn(t)
    \/ RUnlock(t)
    \/ WriteBody(t)
    \/ Unlock(t)

SpecFetchFair ==
    /\ SpecFetch
    /\ \A t \in Procs : WF_vars(InsideLock(t))
    /\ \A t \in Procs : SF_vars(PromptLock(t))

----------------------------------------------------------------------------
(* Claims about the cache, under SpecCache *)

\* the last read is a Get of the key last mutated by a Set / SetWithTTL
GetAfter(op) == ret.op = "Get" /\ written.op = op /\ written.key = ret.key

\* C6 as stated: Set(k, v) followed immediately (at the same instant, nothing
\* in between) by Get(k) returns (v, found = true, expired = false).
C6_RoundTripAsStated ==
    (GetAfter("Set") /\ ret.at = written.at)
        => (ret.value = written.value /\ ret.found /\ ~ret.expired)

\* C6 amended: Set(k, v) followed by Get(k), with no write, Delete, Clear or
\* Cleanup in between and the Get no later than the default TTL after the Set,
\* returns (v, found = true, expired = false).
C6_RoundTrip ==
    (GetAfter("Set") /\ ret.at <= written.at + written.ttl)
        => (ret.value = written.value /\ ret.found /\ ~ret.expired)

C6_Witness ==
    /\ GetAfter("Set")
    /\ ret.at > written.at
    /\ ret.at <= written.at + written.ttl
    /\ ret.found

\* C7: after SetWithTTL(k, v, ttl) and the passage of more than ttl, with no
\* write, Delete, Clear or Cleanup in between, Get(k) returns
\* (v, found = true, expired = true): the expired value is retained.
C7_ExpiredRetained ==
    (GetAfter("SetWithTTL") /\ ret.at > written.at + written.ttl)
        => (ret.value = written.value /\ ret.found /\ ret.expired)

C7_Witness ==
    /\ GetAfter("SetWithTTL")
    /\ written.ttl > 0
    /\ ret.at > written.at + written.ttl
    /\ ret.expired

\* the keys whose entries have not expired at instant t
FreshKeys(es, t) == {k \in DOMAIN es : t <= es[k].ExpiresAt}

\* C8: a Cleanup() call leaves exactly the keys whose entries had not expired
\* at the time of the call, each with its entry unchanged, and Size() is the
\* number of those keys.
C8_CleanupPrecision ==
    [][Cleanup =>
          /\ DOMAIN entries' = FreshKeys(entries, now)
          /\ \A k \in FreshKeys(entries, now) : entries'[k] = entries[k]
          /\ CacheSize(entries') = Cardinality(FreshKeys(entries, now))]_vars

\* a Cleanup that removed an expired entry and kept a fresh one
C8_Witness ==
    /\ written.op = "Cleanup"
    /\ written.n >= 1
    /\ CacheSize(entries) >= 1
    /\ ret.op = "Size"
    /\ ret.n = CacheSize(entries)

\* key k is in the map before the step and not after it
Leaves(k) == k \in DOMAIN entries /\ k \notin DOMAIN entries'

\* C13: Size() returns the number of distinct keys in the map, the expired
\* ones included; a key leaves the map only in a Delete of that key, in a Clear,
\* or in a Cleanup that finds it expired; the passing of time, Get, Size,
\* GetTTL and SetTTL leave the map as it is.
C13_SizeCountsAll ==
    /\ [](ret.op = "Size" => ret.n = Cardinality(DOMAIN entries))
    /\ [][\A k \in CacheKeys :
            Leaves(k) => \/ Delete(k)
                         \/ Clear
                         \/ (Cleanup /\ now > entries[k].ExpiresAt)]_vars
    /\ [][(now' # now \/ ret'.op \in {"Get", "Size", "GetTTL", "SetTTL"})
              => entries' = entries]_vars

\* Size() answered 2 at an instant when one of the two entries had expired
C13_Witness ==
    /\ ret.op = "Size"
    /\ ret.n = 2
    /\ \E k \in DOMAIN entries : ret.at > entries[k].ExpiresAt

\* C14: SetTTL(t) makes t the default TTL, GetTTL() returns the default TTL,
\* the entries already in the map keep their value and expiry, and a later
\* Set expires t after its own instant.
C14_SetTTL ==
    /\ [][\A d \in TTLs : (ret'.op = "SetTTL" /\ ret'.n = d /\ SetTTL(d))
                               => (ttl' = d /\ entries' = entries)]_vars
    /\ [](ret.op \in {"SetTTL", "GetTTL"} => ret.n = ttl)
    /\ [][\A k \in CacheKeys, v \in CacheValues :
            (/\ ret.op = "SetTTL"
             /\ written'.op = "Set"
             /\ written'.key = k
             /\ written'.value = v
             /\ Set(k, v))
                => (entries'[k].Value = v /\ entries'[k].ExpiresAt = now + ret.n)]_vars

\* an entry written by Set under one default TTL still has the expiry of that
\* write after SetTTL changed the default, which GetTTL now returns
C14_Witness ==
    /\ written.op = "Set"
    /\ written.key \in DOMAIN entries
    /\ entries[written.key].ExpiresAt = written.at + written.ttl
    /\ ret.op = "GetTTL"
    /\ ret.n # written.ttl

\* C15: SetWithTTL(k, v, d) stores v under k with expiry now + d, whatever the
\* default TTL is, and leaves the default TTL and every other key's entry as
\* they were.
C15_SetWithTTL ==
    [][written'.op = "SetWithTTL" =>
          LET k == written'.key
              v == written'.value
              d == written'.ttl
          IN SetWithTTL(k, v, d) =>
                 /\ DOMAIN entries' = DOMAIN entries \cup {k}
                 /\ entries'[k].Value = v
                 /\ entries'[k].ExpiresAt = now + d
                 /\ \A j \in DOMAIN entries \ {k} : entries'[j] = entries[j]
                 /\ ttl' = ttl]_vars

\* a SetWithTTL whose TTL differs from the default, next to another key
C15_Witness ==
    /\ written.op = "SetWithTTL"
    /\ ret = NoRet
    /\ written.ttl # ttl
    /\ CacheSize(entries) = 2
    /\ entries[written.key].ExpiresAt = written.at + written.ttl

\* C16: Delete(k) removes k when it is present and does nothing otherwise;
\* afterwards Get(k) returns found = false; the other keys' entries and the
\* default TTL are unchanged.
C16_Delete ==
    /\ [][\A k \in CacheKeys :
            (written'.op = "Delete" /\ written'.key = k /\ Delete(k)) =>
                /\ DOMAIN entries' = DOMAIN entries \ {k}
                /\ \A j \in DOMAIN entries' : entries'[j] = entries[j]
                /\ (k \notin DOMAIN entries => entries' = entries)
                /\ ttl' = ttl]_vars
    /\ [](GetAfter("Delete") => ~ret.found)

\* a Delete removed one of two keys and the Get of that key found nothing
C16_Witness ==
    /\ GetAfter("Delete")
    /\ ~ret.found
    /\ written.n = 1
    /\ CacheSize(entries) = 1

\* C17: Clear() removes every entry and leaves the default TTL alone:
\* afterwards Size() is 0 and Get of every key returns found = false.
C17_Clear ==
    /\ [][(written'.op = "Clear" /\ Clear) => (entries' = EmptyMap /\ ttl' = ttl)]_vars
    /\ []((written.op = "Clear" /\ ret.op = "Size") => ret.n = 0)
    /\ []((written.op = "Clear" /\ ret.op = "Get") => ~ret.found)

\* a Clear of two entries, and the Size() after it
C17_Witness ==
    /\ written.op = "Clear"
    /\ written.n = 2
    /\ ret.op = "Size"
    /\ ret.n = 0

\* C34: Get reports an entry expired exactly when the instant of the call is
\* strictly later than the entry's expiry instant, so not at the expiry
\* instant itself; and a Cleanup removes exactly the entries a Get at the
\* same instant would report expired, leaving the others as they were.
C34_ExpiryBoundary ==
    /\ []((ret.op = "Get" /\ ret.found)
            => /\ ret.key \in DOMAIN entries
               /\ ret.expired <=> ret.at > entries[ret.key].ExpiresAt
               /\ ret.at = entries[ret.key].ExpiresAt => ~ret.expired)
    /\ [][Cleanup =>
            /\ DOMAIN entries' \subseteq DOMAIN entries
            /\ \A k \in DOMAIN entries :
                 /\ k \notin DOMAIN entries' <=> CacheGet(entries, k, now, "").expired
                 /\ k \in DOMAIN entries' => entries'[k] = entries[k]]_vars

\* a Get at the expiry instant of an entry found it not expired, and the
\* Cleanup before it, at that same instant, had removed another entry
C34_Witness ==
    /\ ret.op = "Get"
    /\ ret.found
    /\ ret.at = entries[ret.key].ExpiresAt
    /\ ~ret.expired
    /\ ret.at = now
    /\ written.op = "Cleanup"
    /\ written.at = now
    /\ written.n >= 1

----------------------------------------------------------------------------
(* Claims about the cache key, under SpecKey *)

Keyed(p) == pc[p] = "keyed"

\* the decimal text of the version numbers in KeyVersions
Decimal == (2 :> "2") @@ (12 :> "12")

\* C9: the key is "prompt:"+name+":v"+version when version is set (also when
\* label is set too), else "prompt:"+name+":l:"+label when label is set, else
\* "prompt:"+name+":l:production"; so a request with neither has the key of
\* one with label "production", and for one name a version key differs from
\* every label key.
C9_KeyFormula ==
    /\ \A p \in Procs : Keyed(p) =>
          LET n == req[p].name
              o == req[p].opts
          IN  /\ o.Version # Nil =>
                    key[p] = "prompt:" \o n \o ":v" \o Decimal[Deref(o.Version)]
              /\ (o.Version = Nil /\ o.Label # Nil) =>
                    key[p] = "prompt:" \o n \o ":l:" \o Deref(o.Label)
              /\ (o.Version = Nil /\ o.Label = Nil) =>
                    key[p] = "prompt:" \o n \o ":l:production"
    /\ \A p, q \in Procs :
          (Keyed(p) /\ Keyed(q) /\ req[p].name = req[q].name) =>
              LET o == req[p].opts
                  u == req[q].opts
              IN  /\ (o.Version = Nil /\ o.Label = Nil /\ u.Version = Nil
                        /\ u.Label = Some("production")) => key[p] = key[q]
                  /\ (o.Version # Nil /\ u.Version = Nil) => key[p] # key[q]

\* one request with both selectors set, one with neither, for the same name
C9_Witness ==
    /\ Keyed(1) /\ Keyed(2)
    /\ req[1].name = req[2].name
    /\ req[1].opts.Version = Some(12) /\ req[1].opts.Label = Some("staging")
    /\ req[2].opts.Version = Nil /\ req[2].opts.Label = Nil
    /\ key[1] = "prompt:" \o req[1].name \o ":v12"
    /\ key[2] = "prompt:" \o req[2].name \o ":l:production"

\* C10: two requests that agree on (name, version, label) use the same cache
\* key whatever their fallbackPrompt, forceRefresh, cacheTTL and fetchTimeout,
\* so an entry stored under the key of one is found by Get with the key of
\* the other.
C10_KeyIgnoresOtherOptions ==
    \A p, q \in Procs :
        (/\ Keyed(p) /\ Keyed(q)
         /\ req[p].name = req[q].name
         /\ req[p].opts.Version = req[q].opts.Version
         /\ req[p].opts.Label = req[q].opts.Label)
        => /\ key[p] = key[q]
           /\ LET es == CacheSetWithTTL(EmptyMap, key[p], Fallback, MaxTTL, now)
                  g == CacheGet(es, key[q], now, Nil)
              IN  g.found /\ g.value = Fallback

C10_Witness ==
    /\ Keyed(1) /\ Keyed(2)
    /\ req[1].name = req[2].name
    /\ req[1].opts.Version = req[2].opts.Version
    /\ req[1].opts.Label = req[2].opts.Label
    /\ req[1].opts.FallbackPrompt # req[2].opts.FallbackPrompt
    /\ req[1].opts.ForceRefresh # req[2].opts.ForceRefresh
    /\ req[1].opts.CacheTTL # req[2].opts.CacheTTL
    /\ req[1].opts.FetchTimeout # req[2].opts.FetchTimeout
    /\ key[1] = key[2]

----------------------------------------------------------------------------
(* Claims about the cache key, under SpecAlias *)

\* what a request asks for: the name with the version when one is set, else
\* the name with the label, "production" when none is set
Intent(r) ==
    IF r.opts.Version # Nil THEN <<r.name, "version", Deref(r.opts.Version)>>
    ELSE IF r.opts.Label # Nil THEN <<r.name, "label", Deref(r.opts.Label)>>
    ELSE <<r.name, "label", "production">>

\* C37: two requests that differ in (name, version) or in (name, effective
\* label) never have the same cache key, so an entry stored under the key of
\* one is not found by a Get with the key of the other.
C37_KeysInjective ==
    \A p, q \in Procs :
        (Keyed(p) /\ Keyed(q) /\ Intent(req[p]) # Intent(req[q]))
            => /\ key[p] # key[q]
               /\ ~CacheGet(CacheSetWithTTL(EmptyMap, key[p], Fallback, MaxTTL, now),
                            key[q], now, Nil).found

\* the label "v1" of prompt "p" and version 1 of prompt "p:l" share a key
C37_Witness ==
    /\ Keyed(1) /\ Keyed(2)
    /\ req[1].name = "p" /\ req[1].opts.Version = Nil /\ req[1].opts.Label = Some("v1")
    /\ req[2].name = "p:l" /\ req[2].opts.Version = Some(1)
    /\ key[1] = "prompt:p:l:v1"
    /\ key[2] = key[1]

----------------------------------------------------------------------------
(* Claims about GetPrompt, under Spec *)

Done(p) == pc[p] = "done"
FetchFailed(p) == Done(p) /\ fetches[p] = 1 /\ fetched[p].err # Nil
FetchSucceeded(p) == Done(p) /\ fetches[p] = 1 /\ fetched[p].prompt # Nil

\* a step that is the call of GetPrompt by p / the cache write of p's call
Calls(p) == pc[p] = "idle" /\ pc'[p] # "idle"
Caches(p) == pc[p] = "caching" /\ pc'[p] = "done"

\* the cache holds an entry for k that has not expired at instant t
HoldsFresh(es, k, t) == k \in DOMAIN es /\ t <= es[k].ExpiresAt

\* C1: when the cache held an expired entry for the key at the call, the
\* fetch failed and forceRefresh is false, GetPrompt returns the expired
\* value and a nil error.
C1_StaleWhileError ==
    \A p \in Procs :
        (FetchFailed(p) /\ ~req[p].opts.ForceRefresh /\ held[p].found /\ held[p].expired)
            => result[p] = [prompt |-> held[p].value, err |-> Nil]

C1_Witness ==
    /\ FetchFailed(1)
    /\ ~req[1].opts.ForceRefresh
    /\ held[1].found /\ held[1].expired
    /\ result[1].prompt = held[1].value
    /\ result[1].prompt # Nil

\* C2: a call with forceRefresh false that finds a non-expired entry for its
\* key returns that entry's value with a nil error, issues no fetch and
\* leaves the cache as it was.
C2_FreshHit ==
    [][\A p \in Procs :
          (Calls(p) /\ ~req'[p].opts.ForceRefresh /\ HoldsFresh(entries, key'[p], now))
              => /\ pc'[p] = "done"
                 /\ result'[p] = [prompt |-> entries[key'[p]].Value, err |-> Nil]
                 /\ fetches'[p] = 0
                 /\ entries' = entries]_vars

C2_Witness ==
    /\ Done(1)
    /\ ~req[1].opts.ForceRefresh
    /\ held[1].found /\ ~held[1].expired
    /\ fetches[1] = 0
    /\ result[1] = [prompt |-> held[1].value, err |-> Nil]
    /\ HoldsFresh(entries, key[1], now)
    /\ entries[key[1]].Value = held[1].value

\* C3: with no cache entry for the key at the call and a failing fetch,
\* GetPrompt returns the fallbackPrompt with a nil error when one is set, and
\* the fetch error with no prompt otherwise.
C3_FallbackOnMiss ==
    \A p \in Procs :
        (FetchFailed(p) /\ ~held[p].found)
            => IF req[p].opts.FallbackPrompt # Nil
               THEN result[p] = [prompt |-> req[p].opts.FallbackPrompt, err |-> Nil]
               ELSE result[p] = [prompt |-> Nil, err |-> fetched[p].err]

C3_Witness ==
    /\ FetchFailed(1)
    /\ ~held[1].found
    /\ ~req[1].opts.ForceRefresh
    /\ req[1].opts.FallbackPrompt = Fallback
    /\ result[1] = [prompt |-> Fallback, err |-> Nil]

\* C4: a call with forceRefresh true always performs the fetch; when the
\* cache held a fresh value V1 and the fetch returned V2 the call returns V2,
\* and its cache write leaves the entry of the key holding V2.
C4_ForceRefresh ==
    /\ [](\A p \in Procs :
            (Done(p) /\ req[p].opts.ForceRefresh /\ held[p].found /\ ~held[p].expired)
                => /\ fetches[p] = 1
                   /\ fetched[p].prompt # Nil
                        => result[p] = [prompt |-> fetched[p].prompt, err |-> Nil])
    /\ [][\A p \in Procs :
            (Caches(p) /\ req[p].opts.ForceRefresh)
                => /\ key[p] \in DOMAIN entries'
                   /\ entries'[key[p]].Value = fetched[p].prompt
                   /\ result'[p].prompt = fetched[p].prompt]_vars

C4_Witness ==
    /\ FetchSucceeded(1)
    /\ req[1].opts.ForceRefresh
    /\ held[1].found /\ ~held[1].expired
    /\ fetched[1].prompt # held[1].value
    /\ result[1] = [prompt |-> fetched[1].prompt, err |-> Nil]
    /\ key[1] \in DOMAIN entries
    /\ entries[key[1]].Value = fetched[1].prompt

\* C5: a call that finds no entry for its key and whose fetch succeeds issues
\* exactly one fetch and stores the result under its key, which is
\* "prompt:<name>:l:<label>" for a request by label; a later call for a key
\* whose entry has not expired (no forceRefresh) returns the cached value and
\* issues no fetch.  The entry expires one TTL after the write, and only a
\* cache write or a Clear changes the cache in between.
C5_EndToEnd ==
    /\ [](\A p \in Procs :
            (FetchSucceeded(p) /\ ~held[p].found)
                => /\ fetches[p] = 1
                   /\ result[p] = [prompt |-> fetched[p].prompt, err |-> Nil]
                   /\ (req[p].opts.Version = Nil /\ req[p].opts.Label # Nil)
                        => key[p] = "prompt:" \o req[p].name \o ":l:"
                                        \o Deref(req[p].opts.Label))
    /\ [][(entries' # entries) => ((\E p \in Procs : Caches(p)) \/ entries' = EmptyMap)]_vars
    /\ [][\A p \in Procs :
            /\ (Caches(p) /\ ~held[p].found)
                => /\ key[p] \in DOMAIN entries'
                   /\ entries'[key[p]].Value = result'[p].prompt
                   /\ entries'[key[p]].ExpiresAt = now + fetched[p].cacheTTL
            /\ (Calls(p) /\ ~req'[p].opts.ForceRefresh
                  /\ HoldsFresh(entries, key'[p], now))
                => /\ result'[p] = [prompt |-> entries[key'[p]].Value, err |-> Nil]
                   /\ fetches'[p] = 0]_vars

\* the second call of the scenario: a hit on "prompt:movie-critic:l:production"
\* some time after the write, within the TTL
C5_Witness ==
    /\ Done(1)
    /\ req[1] = [name |-> "movie-critic",
                 opts |-> [NoOptions EXCEPT !.Label = Some("production")]]
    /\ key[1] = "prompt:movie-critic:l:production"
    /\ now > 0
    /\ held[1].found /\ ~held[1].expired
    /\ fetches[1] = 0
    /\ result[1] = [prompt |-> held[1].value, err |-> Nil]

\* the call found an unexpired entry and was not told to bypass the cache
ServedFromCache(p) ==
    ~req[p].opts.ForceRefresh /\ held[p].found /\ ~held[p].expired

\* C18: one call of GetPrompt makes at most one remote fetch: none when it
\* is served by an unexpired entry, exactly one on an expired entry, on a
\* miss and under ForceRefresh; a call whose fetch failed made that one
\* fetch and no second one.
C18_AtMostOneFetch ==
    \A p \in Procs :
        /\ fetches[p] \in {0, 1}
        /\ pc[p] \in {"fetching", "caching", "done"}
               => fetches[p] = (IF ServedFromCache(p) THEN 0 ELSE 1)
        /\ pc[p] \in {"fetching", "caching"} => fetches[p] = 1
        /\ (Done(p) /\ fetched[p].err # Nil) => fetches[p] = 1

\* a call that found an expired entry, fetched once, and returned after that
\* fetch had failed
C18_Witness ==
    /\ Done(1)
    /\ held[1].found /\ held[1].expired
    /\ ~req[1].opts.ForceRefresh
    /\ fetched[1].err # Nil
    /\ fetches[1] = 1

\* text holds sub as a substring
Contains(text, sub) ==
    \E i \in 1..(Len(text) - Len(sub) + 1) : SubSeq(text, i, i + Len(sub) - 1) = sub

\* the error text names the prompt that was being resolved: its name, and
\* the version or the label the request selected
Identifies(text, name, opts) ==
    /\ Contains(text, name)
    /\ opts.Version # Nil => Contains(text, Itoa(Deref(opts.Version)))
    /\ (opts.Version = Nil /\ opts.Label # Nil) => Contains(text, Deref(opts.Label))

\* C20: every error GetPrompt returns (a failure recovered neither by a
\* stale value nor by a fallback) carries the name and the version or label
\* that was being resolved.
C20_ErrorNamesRequest ==
    \A p \in Procs :
        (Done(p) /\ result[p].err # Nil)
            => Identifies(Deref(result[p].err), req[p].name, req[p].opts)

\* GetPrompt("movie-critic", label production) returned the error of an
\* HTTP 404, whose text names neither the prompt nor the label
C20_Witness ==
    /\ Done(1)
    /\ req[1].name = "movie-critic"
    /\ req[1].opts.Label = Some("production")
    /\ req[1].opts.Version = Nil
    /\ result[1] = [prompt |-> Nil,
                    err |-> Some("failed to fetch prompt: HTTP 404: {type:text}")]

\* a caller is inside fetchPrompt, between the RUnlock of its cache lookup
\* and the Lock of its SetWithTTL, and will read l.promptCacheTTL (line 187)
\* on its way to the write
ReadsDefaultTTL(p) == pc[p] = "fetching" /\ req[p].opts.CacheTTL = Nil

\* C33: the entry store is the only mutable shared state of the resolver:
\* the client's default TTL, which fetchPrompt reads outside the cache lock,
\* is not written while a GetPrompt call that reads it is inside fetchPrompt,
\* also when WithPromptCacheTTL runs concurrently with GetPrompt.
C33_OnlyEntriesShared ==
    [][(\E p \in Callers : ReadsDefaultTTL(p)) => promptCacheTTL' = promptCacheTTL]_vars

\* a call that gave no CacheTTL has picked, for its write, a TTL other than
\* the one of construction: one that WithPromptCacheTTL stored in the field
C33_Witness ==
    \E p \in Callers :
        /\ pc[p] = "caching"
        /\ req[p].opts.CacheTTL = Nil
        /\ fetched[p].cacheTTL = promptCacheTTL
        /\ promptCacheTTL # defaultPromptCacheTTL

----------------------------------------------------------------------------
(* Claims about a refresh and about a failed fetch: C23, C25, C27 and C28   *)
(* under SpecCtx, C24, C26 and C29 under Spec                               *)

\* p's lookup found an entry for its key that had expired
StaleHit(p) == ~req[p].opts.ForceRefresh /\ lookup[p].found /\ lookup[p].expired

\* C23: when forceRefresh is false, the entry found for the key has expired
\* and the fetch succeeds, GetPrompt returns the fetched value, and the step
\* that returns it has replaced the key's entry by that value with the expiry
\* of the new write.
C23_StaleRefreshed ==
    /\ [](\A p \in Procs :
            (FetchSucceeded(p) /\ StaleHit(p))
                => result[p] = [prompt |-> fetched[p].prompt, err |-> Nil])
    /\ [][\A p \in Procs :
            (Caches(p) /\ StaleHit(p))
                => /\ key[p] \in DOMAIN entries'
                   /\ entries'[key[p]] = NewEntry(fetched[p].prompt, fetched[p].cacheTTL, now)
                   /\ entries'[key[p]].ExpiresAt = now + fetched[p].cacheTTL
                   /\ result'[p] = [prompt |-> fetched[p].prompt, err |-> Nil]]_vars

\* a stale hit was refreshed: the call returned a value other than the
\* expired one, and the key's entry holds it, unexpired
C23_Witness ==
    /\ FetchSucceeded(1)
    /\ StaleHit(1)
    /\ held[1].value # fetched[1].prompt
    /\ result[1].prompt = fetched[1].prompt
    /\ key[1] \in DOMAIN entries
    /\ entries[key[1]].Value = fetched[1].prompt
    /\ entries[key[1]].ExpiresAt >= now

\* the cache held an expired entry for p's key at the call, and p looked
HeldStale(p) == ~req[p].opts.ForceRefresh /\ held[p].found /\ held[p].expired

\* C24: on a stale hit whose fetch fails GetPrompt returns the stale value
\* even when a fallbackPrompt is set; a call returns its fallbackPrompt only
\* after a failed fetch that followed a miss or a forced refresh.
C24_StaleBeatsFallback ==
    \A p \in Procs :
        /\ (FetchFailed(p) /\ HeldStale(p) /\ req[p].opts.FallbackPrompt # Nil)
               => /\ result[p] = [prompt |-> held[p].value, err |-> Nil]
                  /\ result[p].prompt # req[p].opts.FallbackPrompt
        /\ (Done(p) /\ result[p].prompt # Nil
              /\ result[p].prompt = req[p].opts.FallbackPrompt)
               => /\ FetchFailed(p)
                  /\ req[p].opts.ForceRefresh \/ ~held[p].found

\* the refresh of a stale entry failed in a call that had a fallback, and the
\* call returned the stale value
C24_Witness ==
    /\ FetchFailed(1)
    /\ HeldStale(1)
    /\ req[1].opts.FallbackPrompt = Fallback
    /\ result[1] = [prompt |-> held[1].value, err |-> Nil]
    /\ held[1].value # Fallback

\* a step in which p's fetch fails and GetPrompt returns
FailsFetch(p) == pc[p] = "fetching" /\ pc'[p] = "done"

\* C25: a call with forceRefresh whose fetch fails returns its fallbackPrompt
\* when one is set and the fetch error otherwise, never the value the cache
\* held for the key, fresh or stale; the failing fetch leaves the cache as it
\* was.
C25_ForcedFailure ==
    /\ [](\A p \in Procs :
            (FetchFailed(p) /\ req[p].opts.ForceRefresh)
                => /\ IF req[p].opts.FallbackPrompt # Nil
                      THEN result[p] = [prompt |-> req[p].opts.FallbackPrompt, err |-> Nil]
                      ELSE result[p] = [prompt |-> Nil, err |-> fetched[p].err]
                   /\ held[p].found => result[p].prompt # held[p].value)
    /\ [][\A p \in Procs :
            (FailsFetch(p) /\ req[p].opts.ForceRefresh) => entries' = entries]_vars

\* a forced refresh failed while the cache held a fresh value for the key; the
\* call returned the fetch error and the entry is still there
C25_Witness ==
    /\ FetchFailed(1)
    /\ req[1].opts.ForceRefresh
    /\ req[1].opts.FallbackPrompt = Nil
    /\ held[1].found /\ ~held[1].expired
    /\ result[1] = [prompt |-> Nil, err |-> fetched[1].err]
    /\ key[1] \in DOMAIN entries
    /\ entries[key[1]].Value = held[1].value

\* a step in which p's fetch succeeds and fetchPrompt picks the TTL of its write
PicksTTL(p) == pc[p] = "fetching" /\ pc'[p] = "caching"

\* C26: a successful fetch writes under the cache key of its request, with
\* expiry now + options.cacheTTL when the call sets one and now + the
\* resolver's default TTL otherwise; no step of a call changes the resolver's
\* default or the cache's own TTL, so the cacheTTL of one call is not the TTL
\* of a later call's write.
C26_WriteTTL ==
    [][\A p \in Procs :
         /\ PicksTTL(p)
              => fetched'[p].cacheTTL = IF req[p].opts.CacheTTL # Nil
                                        THEN Deref(req[p].opts.CacheTTL)
                                        ELSE promptCacheTTL
         /\ Caches(p)
              => /\ key[p] = buildPromptCacheKey(req[p].name, req[p].opts)
                 /\ entries' = Store(entries, key[p],
                                     NewEntry(fetched[p].prompt, fetched[p].cacheTTL, now))
                 /\ entries'[key[p]].ExpiresAt = now + fetched[p].cacheTTL
         /\ pc'[p] # pc[p]
              => promptCacheTTL' = promptCacheTTL /\ ttl' = ttl]_vars

\* a call with a cacheTTL wrote its entry with that TTL while the resolver's
\* default is another
C26_Witness ==
    /\ FetchSucceeded(1)
    /\ req[1].opts.CacheTTL = Some(MaxTTL)
    /\ promptCacheTTL # MaxTTL
    /\ ttl = promptCacheTTL
    /\ fetched[1].cacheTTL = MaxTTL
    /\ key[1] \in DOMAIN entries
    /\ entries[key[1]] = NewEntry(fetched[1].prompt, MaxTTL, now)

\* what GetPrompt returns after a failed fetch: the stale value after a stale
\* hit, else the fallbackPrompt when set, else the fetch error
FailureRule(p) ==
    IF ~req[p].opts.ForceRefresh /\ held[p].found
    THEN result[p] = [prompt |-> held[p].value, err |-> Nil]
    ELSE IF req[p].opts.FallbackPrompt # Nil
    THEN result[p] = [prompt |-> req[p].opts.FallbackPrompt, err |-> Nil]
    ELSE result[p] = [prompt |-> Nil, err |-> fetched[p].err]

\* the transport handed p's fetch a response, and what it was
Responded(p) == fetched[p].resp # Nil /\ Deref(fetched[p].resp).err = Nil
HTTPError(p) == Responded(p) /\ Deref(fetched[p].resp).statusCode >= 400

\* C27: a response with a status code of 400 or more is a failed fetch
\* whatever its body, a well-formed prompt included: the call ends without a
\* cache write and returns what it returns after a transport error, the
\* stale value after a stale hit, else the fallbackPrompt, else the error.
C27_StatusIsFailure ==
    /\ [](\A p \in Procs :
            HTTPError(p) => /\ FetchFailed(p)
                            /\ fetched[p].prompt = Nil
                            /\ FailureRule(p))
    /\ [][\A p \in Procs :
            (pc[p] = "fetching" /\ pc'[p] # "fetching" /\ HTTPError(p)')
                => entries' = entries]_vars

\* a 404 whose body is a well-formed text prompt ended a refresh of a stale
\* entry: the call returned the stale value and the entry is as it was
C27_Witness ==
    /\ HTTPError(1)
    /\ Deref(fetched[1].resp) = Response(TextBody, 404, Nil)
    /\ parsePromptResponse(TextBody).err = Nil
    /\ HeldStale(1)
    /\ result[1] = [prompt |-> held[1].value, err |-> Nil]
    /\ key[1] \in DOMAIN entries
    /\ entries[key[1]].Value = held[1].value

\* a body that is no JSON, or whose prompt is not of the shape its type asks
Undecodable(body) ==
    \/ ~body.valid
    \/ body.type = "text" /\ body.prompt.kind # "string"
    \/ body.type = "chat" /\ body.prompt.kind # "array"
UnknownType(body) == body.valid /\ body.type \notin {"text", "chat"}
Unparsable(p) ==
    /\ Responded(p)
    /\ Deref(fetched[p].resp).statusCode < 400
    /\ UnknownType(Deref(fetched[p].resp).body) \/ Undecodable(Deref(fetched[p].resp).body)

\* C28: a response below status 400 whose type is neither "text" nor "chat",
\* or whose body does not decode, is a failed fetch: the call ends without a
\* cache write and returns the stale value after a stale hit, else the
\* fallbackPrompt, else the error.
C28_UnparsableIsFailure ==
    /\ [](\A p \in Procs :
            Unparsable(p) => /\ FetchFailed(p)
                             /\ fetched[p].prompt = Nil
                             /\ FailureRule(p))
    /\ [][\A p \in Procs :
            (pc[p] = "fetching" /\ pc'[p] # "fetching" /\ Unparsable(p)')
                => entries' = entries]_vars

\* a 200 of type "embedding" after a miss, in a call with a fallback
C28_Witness ==
    /\ Unparsable(1)
    /\ Deref(fetched[1].resp) = Response(OtherBody, 200, Nil)
    /\ ~held[1].found
    /\ req[1].opts.FallbackPrompt = Fallback
    /\ result[1] = [prompt |-> Fallback, err |-> Nil]
    /\ key[1] \notin DOMAIN entries

\* the URL of a request has a query parameter of that name
HasParam(urlPath, param) ==
    Contains(urlPath, "?" \o param \o "=") \/ Contains(urlPath, "&" \o param \o "=")

\* C29: the request of a fetch carries at most one of the query parameters
\* version and label: version alone when options.version is set, with or
\* without a label, label alone when only the label is set, and neither when
\* both are absent; the cache key of the call is built from the same selector.
C29_OneSelector ==
    \A p \in Procs :
        pc[p] = "fetching" =>
            LET o == req[p].opts
                base == "/api/public/v2/prompts/" \o req[p].name
            IN  /\ ~(HasParam(path[p], "version") /\ HasParam(path[p], "label"))
                /\ o.Version # Nil
                     => /\ path[p] = base \o "?version=" \o Itoa(Deref(o.Version))
                        /\ key[p] = "prompt:" \o req[p].name \o ":v" \o Itoa(Deref(o.Version))
                /\ (o.Version = Nil /\ o.Label # Nil)
                     => /\ path[p] = base \o "?label=" \o Deref(o.Label)
                        /\ key[p] = "prompt:" \o req[p].name \o ":l:" \o Deref(o.Label)
                /\ (o.Version = Nil /\ o.Label = Nil)
                     => /\ path[p] = base
                        /\ key[p] = "prompt:" \o req[p].name \o ":l:production"

\* a fetch for version 1 of a prompt whose options also name a label
C29_Witness ==
    /\ pc[1] = "fetching"
    /\ req[1].opts.Version = Some(1)
    /\ req[1].opts.Label = Some("production")
    /\ path[1] = "/api/public/v2/prompts/movie-critic?version=1"
    /\ HasParam(path[1], "version")
    /\ ~HasParam(path[1], "label")
    /\ key[1] = "prompt:movie-critic:v1"

\* the variants of a prompt that are populated
Variants(prompt) ==
    (IF prompt.TextPrompt # Nil THEN {"text"} ELSE {})
        \cup (IF prompt.ChatPrompt # Nil THEN {"chat"} ELSE {})

\* C35: the prompt of a successful fetch has exactly one of TextPrompt and
\* ChatPrompt populated, the one the response's type names, and so has every
\* value in the prompt cache.
C35_OneVariant ==
    /\ \A p \in Procs :
         fetched[p].prompt # Nil
             => Variants(Deref(fetched[p].prompt)) = {Deref(fetched[p].resp).body.type}
    /\ \A k \in DOMAIN entries :
         /\ entries[k].Value # Nil
         /\ Cardinality(Variants(Deref(entries[k].Value))) = 1

\* a chat prompt was fetched while the cache holds a text prompt
C35_Witness ==
    /\ pc[1] = "caching"
    /\ Variants(Deref(fetched[1].prompt)) = {"chat"}
    /\ Deref(fetched[1].resp).body = ChatBody
    /\ key[1] \in DOMAIN entries
    /\ Variants(Deref(entries[key[1]].Value)) = {"text"}

\* the prompts a response without transport error, below status 400 and
\* with a body that parses can yield
FetchablePrompts == {Some(TextPromptOf(TextBody.prompt.str)), Some(ChatPromptOf(ChatBody.prompt.msgs))}

\* the step writes into the entry of key k
Writes(k) == k \in DOMAIN entries' /\ (k \notin DOMAIN entries \/ entries'[k] # entries[k])

\* C36: the prompt cache is written only by a fetch that returned without
\* transport error, with a status below 400 and a body that parsed, under the
\* key of the request that fetch was made for; so every entry holds a fetched
\* prompt, never a caller's fallbackPrompt, and a call that served a stale
\* value or a fallback wrote nothing.
C36_OnlyFetchedCached ==
    /\ [](\A k \in DOMAIN entries :
            /\ entries[k].Value \in FetchablePrompts
            /\ entries[k].Value # Fallback
            /\ ~entries[k].IsFallback)
    /\ [][\A k \in DOMAIN entries' :
            Writes(k) =>
                \E p \in Procs :
                    /\ Caches(p)
                    /\ k = buildPromptCacheKey(req[p].name, req[p].opts)
                    /\ path[p] = fetchPath(req[p].name, req[p].opts)
                    /\ LET r == Deref(fetched[p].resp)
                       IN  /\ r.err = Nil
                           /\ r.statusCode < 400
                           /\ parsePromptResponse(r.body) = [prompt |-> entries'[k].Value,
                                                             err |-> Nil]]_vars

\* a forced refresh failed and the call served its fallback, while the cache
\* still holds, under the key of the call, the prompt fetched earlier
C36_Witness ==
    /\ FetchFailed(1)
    /\ req[1].opts.ForceRefresh
    /\ result[1] = [prompt |-> Fallback, err |-> Nil]
    /\ key[1] \in DOMAIN entries
    /\ entries[key[1]].Value \in FetchablePrompts
    /\ entries[key[1]].Value = held[1].value

\* C39: GetPrompt returns either a prompt and a nil error or a nil prompt and
\* an error, never both and never neither; it returns an error exactly when
\* the fetch failed after a miss or under forceRefresh and the call has no
\* fallbackPrompt.
C39_PromptOrError ==
    \A p \in Procs :
        Done(p) =>
            /\ (result[p].prompt # Nil) # (result[p].err # Nil)
            /\ result[p].err # Nil <=>
                   /\ FetchFailed(p)
                   /\ req[p].opts.ForceRefresh \/ ~held[p].found
                   /\ req[p].opts.FallbackPrompt = Nil

\* a forced refresh without a fallback failed over a cached value: the call
\* returned the error and no prompt
C39_Witness ==
    /\ FetchFailed(1)
    /\ req[1].opts.ForceRefresh
    /\ held[1].found
    /\ req[1].opts.FallbackPrompt = Nil
    /\ result[1].prompt = Nil
    /\ result[1].err = fetched[1].err
    /\ result[1].err # Nil

----------------------------------------------------------------------------
(* Claims about cancellation and deadlines, under SpecCtx *)

\* DoGetRequest of p's call returned under a context that was done
FetchAborted(p) == fetched[p].ctxErr # Nil

\* the prompts a complete response body parses to
CompletePrompts ==
    {Some(TextPromptOf(TextBody.prompt.str)), Some(ChatPromptOf(ChatBody.prompt.msgs))}

Earlier(a, b) == IF a <= b THEN a ELSE b

\* C19: with FetchTimeout set, the deadline of the fetch is the earlier of
\* (fetch start + FetchTimeout) and the deadline of the caller's context; it
\* never lies after the caller's deadline; a fetch that returns at or after
\* its deadline fails; a fresh entry is served whatever the timeout and the
\* context are; and the caller's context changes only when the caller
\* cancels it.
C19_TimeoutComposition ==
    /\ [][\A p \in Procs :
            (Calls(p) /\ pc'[p] = "fetching" /\ req'[p].opts.FetchTimeout # Nil) =>
                LET own == now + Deref(req'[p].opts.FetchTimeout)
                IN  fetchCtx'[p] =
                        (IF ctx'[p].deadline = Nil THEN Some(own)
                         ELSE Some(Earlier(own, Deref(ctx'[p].deadline))))]_vars
    /\ [](\A p \in Procs :
            (pc[p] = "fetching" /\ ctx[p].deadline # Nil) =>
                (fetchCtx[p] # Nil /\ Deref(fetchCtx[p]) <= Deref(ctx[p].deadline)))
    /\ [][\A p \in Procs :
            (pc[p] = "fetching" /\ pc'[p] # "fetching"
                 /\ fetchCtx[p] # Nil /\ now >= Deref(fetchCtx[p]))
                => (pc'[p] = "done" /\ fetched'[p].err # Nil)]_vars
    /\ [][\A p \in Procs :
            (Calls(p) /\ ~req'[p].opts.ForceRefresh /\ HoldsFresh(entries, key'[p], now))
                => (pc'[p] = "done"
                    /\ result'[p] = [prompt |-> entries[key'[p]].Value, err |-> Nil])]_vars
    /\ [][\A p \in Procs :
            (pc[p] # "idle" /\ pc'[p] # "idle" /\ ctx'[p] # ctx[p]) => Cancel(p)]_vars

\* a fetch under a FetchTimeout that would end after the caller's deadline:
\* the fetch is bounded by the caller's deadline
C19_Witness ==
    /\ pc[1] = "fetching"
    /\ req[1].opts.FetchTimeout = Some(MaxTime)
    /\ ctx[1].deadline = Some(1)
    /\ fetchCtx[1] = Some(1)

----------------------------------------------------------------------------
(* Claims about the cache under concurrent calls, under SpecLock *)

\* goroutine t is between taking c.mu and releasing it
InCall(t) == thr[t].pc # "idle"

\* C12: a goroutine inside a writing call (Set, SetWithTTL, Delete, Clear,
\* Cleanup) is alone inside the cache; every entry in the map is the value
\* and expiry of one single store; and a Get that finds its key returns the
\* value and the expiry verdict of that one store.
C12_AtomicReplacement ==
    /\ \A t \in Procs, u \in Procs :
           (t # u /\ InCall(t) /\ thr[t].op \in WriteOps) => ~InCall(u)
    /\ \A k \in DOMAIN entries :
           /\ written.op \in StoreOps
           /\ written.key = k
           /\ entries[k].Value = written.value
           /\ entries[k].ExpiresAt = written.at + written.ttl
    /\ \A t \in Procs :
           (thr[t].op = "Get" /\ thr[t].got # Nil /\ Deref(thr[t].got).found) =>
               LET g == Deref(thr[t].got)
               IN  /\ written.op \in StoreOps
                   /\ written.key = thr[t].key
                   /\ g.value = written.value
                   /\ g.expired = (g.at > written.at + written.ttl)

\* both goroutines are inside Get at once, and one of them has returned
\* the entry that a SetWithTTL stored after the clock had advanced
C12_Witness ==
    /\ InCall(1) /\ InCall(2)
    /\ thr[1].op = "Get" /\ thr[2].op = "Get"
    /\ thr[1].got # Nil
    /\ Deref(thr[1].got).found
    /\ Deref(thr[1].got).value = "value2"
    /\ written.op = "SetWithTTL"
    /\ written.at > 0

----------------------------------------------------------------------------
(* Claims about the ingestion calls, under SpecIngest *)

\* C21: Score on a score that names neither a trace nor a session returns the
\* error "either trace ID or session ID is required", hands no event to the
\* observer and assigns no ID; on a score that names at least one of them it
\* returns the score with a non-empty ID and hands the observer exactly one
\* event, a score-create carrying that score.
C21_ScoreNeedsTraceOrSession ==
    [][\A sc \in Scores : Score(sc) =>
          IF sc.TraceID = "" /\ sc.SessionID = ""
          THEN /\ out'.err = Some("either trace ID or session ID is required")
               /\ out'.ret = Nil
               /\ out'.obj = Some(sc)
               /\ queue' = queue
               /\ uuids' = uuids
          ELSE /\ out'.err = Nil
               /\ out'.ret # Nil
               /\ Deref(out'.ret).ID # ""
               /\ Deref(out'.ret) = [sc EXCEPT !.ID = Deref(out'.ret).ID]
               /\ Len(queue') = Len(queue) + 1
               /\ SubSeq(queue', 1, Len(queue)) = queue
               /\ queue'[Len(queue')].Type = "score-create"
               /\ queue'[Len(queue')].Body = Deref(out'.ret)]_vars

\* a score was refused while the score-create of an accepted one is waiting
C21_Witness ==
    /\ out.op = "Score"
    /\ out.err # Nil
    /\ queue # <<>>
    /\ queue[Len(queue)].Type = "score-create"

\* C22: Trace, Span, Generation, Event and Score return the object with the
\* ID the caller supplied when that ID is not empty, and with a generated ID,
\* one no other object or event carries, only when it is empty.
C22_IDPreserved ==
    (out.op \in {"Trace", "Span", "Generation", "Event", "Score"} /\ out.ret # Nil) =>
        LET given == Deref(out.given).ID
            got == Deref(out.ret).ID
        IN  /\ given # "" => got = given
            /\ given = "" =>
                 /\ got \in {UUID(k) : k \in 1..uuids}
                 /\ \A i \in DOMAIN queue :
                      /\ queue[i].ID # got
                      /\ queue[i].Body.ID = got => queue[i].Body = Deref(out.ret)

\* a call kept the supplied ID while an event with a generated ID is waiting
C22_Witness ==
    /\ out.op \in {"Span", "Generation", "Event"}
    /\ out.ret # Nil
    /\ Deref(out.given).ID = "existing-id"
    /\ Deref(out.ret).ID = "existing-id"
    /\ \E i \in DOMAIN queue : queue[i].Type = "score-create" /\ queue[i].Body.ID \notin IDs

\* the type of the event each observation call hands to the observer
CreateType(op) ==
    CASE op = "Span" -> "span-create"
      [] op = "Generation" -> "generation-create"
      [] op = "Event" -> "event-create"

\* C40: Span, Generation and Event called with an empty TraceID hand the
\* observer a trace-create event and then their own create event, and the
\* observation's TraceID is the ID of that new trace; called with a TraceID
\* they hand over their own event only and keep the TraceID.  (A step that
\* lengthens the queue is an ingestion call, and out' names it.)
C40_TraceCreatedFirst ==
    [][(Len(queue') > Len(queue) /\ out'.op \in {"Span", "Generation", "Event"}) =>
              LET n == Len(queue)
                  o == Deref(out'.given)
                  got == Deref(out'.ret)
              IN  /\ SubSeq(queue', 1, n) = queue
                  /\ queue'[Len(queue')] =
                         IngestionEvent(CreateType(out'.op), queue'[Len(queue')].ID, got)
                  /\ IF o.TraceID = ""
                     THEN /\ Len(queue') = n + 2
                          /\ queue'[n + 1].Type = "trace-create"
                          /\ queue'[n + 1].Body.ID = got.TraceID
                          /\ got.TraceID \in {UUID(k) : k \in (uuids + 1)..uuids'}
                     ELSE /\ Len(queue') = n + 1
                          /\ got.TraceID = o.TraceID]_vars

\* a span-create follows the trace-create of the trace made for it
C40_Witness ==
    /\ out.op = "Span"
    /\ Deref(out.given).TraceID = ""
    /\ Len(queue) >= 2
    /\ queue[Len(queue) - 1].Type = "trace-create"
    /\ queue[Len(queue)].Type = "span-create"
    /\ queue[Len(queue)].Body.TraceID = queue[Len(queue) - 1].Body.ID

\* the entry of key k has expired
Expired(k) == k \in DOMAIN entries /\ now > entries[k].ExpiresAt

\* C38: a call that serves a stale value after a failed fetch leaves the
\* entry with its old value and its old expiry instant; an expired entry stays
\* expired until the cache write of a successful fetch, and every call that
\* finds its key's entry expired starts a fetch.
C38_StaleStaysStale ==
    [][\A p \in Procs :
         /\ (FailsFetch(p) /\ StaleHit(p))
              => /\ entries' = entries
                 /\ result'[p] = [prompt |-> entries[key[p]].Value, err |-> Nil]
                 /\ Expired(key[p])'
         /\ \A k \in DOMAIN entries :
              (Expired(k) /\ ~Expired(k)') => \E q \in Procs : Caches(q) /\ key[q] = k
         /\ (Calls(p) /\ Expired(key'[p]))
              => /\ pc'[p] = "fetching"
                 /\ fetches'[p] = 1
                 /\ ~req'[p].opts.ForceRefresh
                      => lookup'[p] = [value |-> entries[key'[p]].Value,
                                       found |-> TRUE, expired |-> TRUE]]_vars

\* a call found the entry expired, fetched, failed and served the stale
\* value; the entry is as it was, still expired
C38_Witness ==
    /\ FetchFailed(1)
    /\ HeldStale(1)
    /\ result[1] = [prompt |-> held[1].value, err |-> Nil]
    /\ Expired(key[1])
    /\ entries[key[1]].Value = held[1].value
    /\ fetches[1] = 1

----------------------------------------------------------------------------
(* Claims about concurrent GetPrompt calls, under SpecRace *)

\* p's call is between its lookup, which missed, and the return of its fetch
FetchingAfterMiss(p) == pc[p] = "fetching" /\ fetches[p] = 1 /\ ~lookup[p].found

\* C30: GetPrompt has no single-flight.  While one call is fetching a key the
\* cache has no entry for, a second call for that key is not held back: it
\* can start, it observes the miss too, and it issues a fetch of its own while
\* the first is still in flight.
C30_NoSingleFlight ==
    /\ [](\A p, q \in Procs :
            (p # q /\ pc[p] = "idle" /\ FetchingAfterMiss(q) /\ key[q] \notin DOMAIN entries)
                => ENABLED GetPromptCall(p, Background, req[q].name, req[q].opts))
    /\ [][\A p, q \in Procs :
            (p # q /\ Calls(p) /\ FetchingAfterMiss(q)
               /\ key'[p] = key[q] /\ key[q] \notin DOMAIN entries)
                => /\ FetchingAfterMiss(p)'
                   /\ FetchingAfterMiss(q)']_vars

\* two fetches in flight for one key the cache has no entry for
C30_Witness ==
    /\ FetchingAfterMiss(1)
    /\ FetchingAfterMiss(2)
    /\ key[1] = key[2]
    /\ key[1] \notin DOMAIN entries
    /\ ~req[1].opts.ForceRefresh /\ ~req[2].opts.ForceRefresh
    /\ held[1] = NoLookup /\ held[2] = NoLookup

\* p and q fetched the same key at once: each missed, or looked before the
\* other wrote, and both fetches succeeded
BothFetched(p, q) ==
    /\ p # q
    /\ FetchSucceeded(p) /\ FetchSucceeded(q)
    /\ key[p] = key[q]

\* C31: when several GetPrompt calls for one key fetch at once and succeed,
\* every cache write replaces the entry of the key by the writer's own prompt
\* and expiry whatever the entry held, and nothing else changes the cache; so
\* after all of them have returned the entry is the one of the call that
\* wrote last, whichever call or fetch started first.
C31_LastWriteWins ==
    /\ [](\A p, q \in Procs :
            BothFetched(p, q)
                => /\ key[p] \in DOMAIN entries
                   /\ entries[key[p]].Value \in {fetched[p].prompt, fetched[q].prompt})
    /\ [][/\ \A p \in Procs :
               Caches(p) => entries' = Store(entries, key[p],
                                             NewEntry(fetched[p].prompt,
                                                      fetched[p].cacheTTL, now))
          /\ entries' # entries => \E p \in Procs : Caches(p)]_vars

\* both calls missed and fetched; they got different prompts, and the entry
\* holds the one of caller 1, written over the one of caller 2
C31_Witness ==
    /\ BothFetched(1, 2)
    /\ ~held[1].found /\ ~held[2].found
    /\ fetched[1].prompt # fetched[2].prompt
    /\ entries[key[1]] = NewEntry(fetched[1].prompt, fetched[1].cacheTTL, now)
    /\ result[2].prompt = fetched[2].prompt


----------------------------------------------------------------------------
(* Claims about the cache lock during a fetch, under SpecFetchFair *)

HoldsLock(t) == mu.writer = t \/ t \in mu.readers

\* the goroutine is inside fetchPrompt, before its SetWithTTL has the lock
InFetch(t) == thr[t].pc \in {"fetching", "storing"}

\* the goroutine is inside a cache method, between taking and releasing c.mu
InCache(t) == thr[t].pc \in {"locked", "loaded", "unlocking"}

\* C32: a goroutine inside fetchPrompt holds Cache.mu neither as reader nor
\* as writer, and the write lock is only taken by a goroutine that is idle
\* or has its fetch behind it; while one goroutine's fetch is outstanding an
\* idle goroutine can start Get, Set, Clear and GetPrompt at once; and, even
\* if that fetch never returns, every goroutine inside a cache method comes
\* out of it and every SetWithTTL waiting for the lock gets it and returns.
C32_NoLockDuringFetch ==
    /\ [](\A t \in Procs : InFetch(t) => ~HoldsLock(t))
    /\ [](\A t, u \in Procs :
            (t # u /\ thr[t].pc = "fetching" /\ thr[u].pc = "idle") =>
                /\ \A k \in LockKeys : ENABLED GetRLock(u, k)
                /\ \A k \in LockKeys : ENABLED PromptRLock(u, k)
                /\ \A k \in LockKeys, v \in CacheValues : ENABLED Lock(u, "Set", k, v, 0)
                /\ ENABLED Lock(u, "Clear", "", "", 0))
    /\ [][\A t \in Procs :
            (mu'.writer = t /\ mu.writer # t) => thr[t].pc \in {"idle", "storing"}]_vars
    /\ \A t \in Procs : InCache(t) ~> (thr[t].pc \in {"idle", "fetching"})
    /\ \A t \in Procs : (thr[t].pc = "storing") ~> (thr[t].pc = "idle")

\* one goroutine missed and is waiting for its fetch while the other, having
\* started after it, is inside Get holding the read lock
C32_Witness ==
    \E t, u \in Procs :
        /\ t # u
        /\ thr[t].pc = "fetching"
        /\ thr[t].got # Nil
        /\ thr[u].op = "Get"
        /\ thr[u].pc = "loaded"
        /\ u \in mu.readers

====
